---- MODULE Spec2Model ----
(***************************************************************************)
(* Model of the OKX perpetual-futures trading client (OKXTrader):          *)
(* the signed transport with bounded retry (makeRequest), the TTL caches   *)
(* for balance and positions, the instrument precision cache, SetLeverage  *)
(* with its cooldown, and the reader/writer mutexes guarding the caches.   *)
(*                                                                         *)
(* Time is counted in whole seconds, and kept as durations: the age of a   *)
(* cache entry stands for time.Since(its cache time), the remaining sleep  *)
(* of a thread for its time.Sleep.  Strings the code inspects character    *)
(* by character (symbols) are sequences of one-character strings; error    *)
(* texts are sequences of words, so that strings.Contains on an error is a *)
(* membership test on its words.  The Chinese error texts of the source    *)
(* are written here in ASCII (the source text is quoted next to each).     *)
(***************************************************************************)
EXTENDS Integers, Sequences, FiniteSets, TLC

(***************************************************************************)
(* Bounds of the model.                                                    *)
(***************************************************************************)
NumThreads == 2
MaxCalls == 2
SoloCalls == 1
Horizon == 1
TTLCalls == 3
Slack == 1
DecPlaces == 3
FormatSteps == 28
SymbolLen == 2
MaxRecords == 2

(***************************************************************************)
(* Program constants.                                                      *)
(***************************************************************************)
cacheDuration == 15
maxRetries == 3
StatusOK == 200
CooldownSeconds == 3

Threads == 1..NumThreads
NoThread == 0

(***************************************************************************)
(* Generic helpers on sequences.                                           *)
(***************************************************************************)
Range(s) == {s[i] : i \in 1..Len(s)}

Last(s) == s[Len(s)]

HasSuffix(s, suffix) ==
    /\ Len(s) >= Len(suffix)
    /\ SubSeq(s, Len(s) - Len(suffix) + 1, Len(s)) = suffix

\* strings.TrimSuffix
TrimSuffix(s, suffix) ==
    IF HasSuffix(s, suffix) THEN SubSeq(s, 1, Len(s) - Len(suffix)) ELSE s

\* strings.Contains(s, "-") on a symbol; strings.Contains(err.Error(), w) on an error text
Contains(s, x) == x \in Range(s)

\* strings.Contains(s, sub) on a symbol
ContainsSeq(s, sub) ==
    \E i \in 1..(Len(s) - Len(sub) + 1) : SubSeq(s, i, i + Len(sub) - 1) = sub

\* strings.ReplaceAll(s, ch, "")
RECURSIVE RemoveAll(_, _)
RemoveAll(s, ch) ==
    IF s = <<>> THEN <<>>
    ELSE IF Head(s) = ch THEN RemoveAll(Tail(s), ch)
    ELSE <<Head(s)>> \o RemoveAll(Tail(s), ch)

(***************************************************************************)
(* Symbols.                                                                *)
(***************************************************************************)
USDT == <<"U", "S", "D", "T">>
USD == <<"U", "S", "D">>
DashSWAP == <<"-", "S", "W", "A", "P">>
DashUSDTSWAP == <<"-">> \o USDT \o DashSWAP
DashUSDSWAP == <<"-">> \o USD \o DashSWAP

BTCUSDT == <<"B", "T", "C">> \o USDT
ETHUSDT == <<"E", "T", "H">> \o USDT
SOLUSDT == <<"S", "O", "L">> \o USDT
Symbols == {BTCUSDT, ETHUSDT}

\* lines 121-139 without the test for a dash of lines 123-125
convertSymbol_ignoresDash(symbol) ==
    IF TrimSuffix(symbol, USDT) # symbol
    THEN TrimSuffix(symbol, USDT) \o DashUSDTSWAP
    ELSE IF TrimSuffix(symbol, USD) # symbol
         THEN TrimSuffix(symbol, USD) \o DashUSDSWAP
    ELSE symbol \o DashUSDTSWAP

\* lines 121-139 with the USD suffix forgotten
convertSymbol_onlyUSDT(symbol) ==
    IF Contains(symbol, "-") THEN symbol
    ELSE IF TrimSuffix(symbol, USDT) # symbol
         THEN TrimSuffix(symbol, USDT) \o DashUSDTSWAP
    ELSE symbol \o DashUSDTSWAP

convertSymbol(symbol) ==
    IF Contains(symbol, "-") THEN symbol
    ELSE IF TrimSuffix(symbol, USDT) # symbol
         THEN TrimSuffix(symbol, USDT) \o DashUSDTSWAP
    ELSE IF TrimSuffix(symbol, USD) # symbol
         THEN TrimSuffix(symbol, USD) \o DashUSDSWAP
    ELSE symbol \o DashUSDTSWAP

reverseSymbol(okxSymbol) == RemoveAll(TrimSuffix(okxSymbol, DashSWAP), "-")

(***************************************************************************)
(* Errors: NoErr is Go's nil error; Errorf("prefix: %w", err) puts the     *)
(* prefix in front of the wrapped text.                                    *)
(***************************************************************************)
NoErr == <<>>
Wrap(prefix, err) == <<prefix>> \o err

\* "HTTP请求失败"
ErrHTTPRequest == "HTTP request failed"
\* "读取响应失败"
ErrReadBody == "read response failed"
\* "OKX API错误"
ErrOKXAPI == "OKX API error"
\* "HTTP错误"
ErrHTTPStatus == "HTTP error"
\* "解析响应失败"
ErrParseResponse == "parse response failed"
\* "请求失败（已重试3次）"
ErrRetriesExhausted == "request failed (retried 3 times)"
\* "获取账户余额失败"
ErrGetBalance == "get balance failed"
\* "解析余额数据失败"
ErrParseBalance == "parse balance data failed"
\* "未找到账户余额信息"
ErrNoBalance == "no account balance found"
\* "获取持仓失败"
ErrGetPositions == "get positions failed"
\* "解析持仓数据失败"
ErrParsePositions == "parse positions data failed"
\* "解析交易对信息失败"
ErrParseInstruments == "parse instruments failed"
\* "未找到交易对"
ErrNoInstrument == "instrument not found"
\* "OKX API密钥、密钥和Passphrase不能为空"
ErrCredentials == "OKX API key, secret and passphrase must not be empty"
\* "设置杠杆失败"
ErrSetLeverage == "set leverage failed"

\* a Go (value, error) pair; the value of a failed call is the zero value
Ok(v) == [err |-> NoErr, val |-> v]
Fail(e) == [err |-> e, val |-> <<>>]


(***************************************************************************)
(* Decimal strings of the exchange.  A numeric field is a string: <<>> is  *)
(* the empty string (strconv.ParseFloat fails and the code keeps the 0 it  *)
(* returns), <<n>> a string denoting the integer n, and <<m, e>> a string  *)
(* denoting m * 10^(-e) (instrument sizes).                                *)
(***************************************************************************)
Num(n) == <<n>>

\* strconv.ParseFloat(s, 64) with the error discarded, for <<n>> strings
ParseFloat(s) == IF s = <<>> THEN 0 ELSE s[1]

\* strconv.ParseFloat(s, 64) with the error discarded, for <<m, e>> strings
ParseDecimal(s) == IF s = <<>> THEN <<0, 0>> ELSE s

RECURSIVE Pow10(_)
Pow10(e) == IF e = 0 THEN 1 ELSE 10 * Pow10(e - 1)

RECURSIVE Digits(_)
Digits(n) == IF n < 10 THEN 1 ELSE 1 + Digits(n \div 10)

RECURSIVE TrailingZeros(_)
TrailingZeros(n) == IF n = 0 \/ n % 10 # 0 THEN 0 ELSE 1 + TrailingZeros(n \div 10)

\* len(strings.TrimRight(strings.TrimRight(fmt.Sprintf("%.10f", d), "0"), "."))
TrimmedLen(d) ==
    LET whole == d[1] \div Pow10(d[2])
        frac == d[1] % Pow10(d[2])
    IN  IF frac = 0
        THEN Digits(whole)
        ELSE Digits(whole) + 1 + (d[2] - TrailingZeros(frac))

\* float64 values that carry decimals (quantities, sizes) are counted in
\* units of 10^(-DecPlaces); One is 1.0
One == Pow10(DecPlaces)
Fixed(d) == d[1] * Pow10(DecPlaces - d[2])

\* math.Round(a / b) for a >= 0, b > 0
RoundDiv(a, b) == (2 * a + b) \div (2 * b)

(***************************************************************************)
(* State.                                                                  *)
(*   balanceCacheAge,     time.Since(t.balanceCacheTime) and               *)
(*   positionsCacheAge    time.Since(t.positionsCacheTime), in seconds;    *)
(*                        an age of MaxAge stands for every age >= MaxAge  *)
(*   cfg                  the run: the threads that invoke operations      *)
(*                        (callers), how many invocations are made in all  *)
(*                        (budget), how many seconds the clock is followed *)
(*                        (horizon), the replies the exchange gives        *)
(*                        (faults: "every", "core" without the rarer       *)
(*                        failures, "api" without transport errors)        *)
(*                        and the data it holds (market)                   *)
(*   cachedBalance        nil (<<>>) or <<balance map>>                    *)
(*   cachedPositions      the slice of position maps; nil is <<>>          *)
(*   symbolPrecision      the map instrument ID -> OKXSymbolPrecision      *)
(*   *Mutex               sync.RWMutex: the readers and the writer holding *)
(*   th                   per thread: position (pc), return labels (stack),*)
(*                        arguments, locals of the running functions, the  *)
(*                        requests its operation has made (log), the       *)
(*                        seconds it has spent in the cooldown (cooled)    *)
(*                        and the quantity its caller passed (given)       *)
(*   started, calls, fetched, lastLock, lastWrite   history (see below)    *)
(***************************************************************************)
VARIABLES cfg,
          cachedBalance, balanceCacheAge, balanceCacheMutex,
          cachedPositions, positionsCacheAge, positionsCacheMutex,
          symbolPrecision, precisionMutex,
          th, started, elapsed, calls, fetched, lastLock, lastWrite

vars == <<cfg,
          cachedBalance, balanceCacheAge, balanceCacheMutex,
          cachedPositions, positionsCacheAge, positionsCacheMutex,
          symbolPrecision, precisionMutex,
          th, started, elapsed, calls, fetched, lastLock, lastWrite>>

balanceVars == <<cachedBalance, balanceCacheAge, balanceCacheMutex>>
positionsVars == <<cachedPositions, positionsCacheAge, positionsCacheMutex>>
precisionVars == <<symbolPrecision, precisionMutex>>
historyVars == <<started, elapsed, calls, fetched, lastLock, lastWrite>>

(***************************************************************************)
(* What the exchange can answer.  A reply to one HTTP attempt is either a  *)
(* transport error (client.Do fails), a body that cannot be read, or a     *)
(* status with a body; a body is either not JSON or an envelope            *)
(* {code, msg, data}; data is a JSON array (valid) or something the        *)
(* caller's json.Unmarshal rejects.                                        *)
(***************************************************************************)
Data(valid, items) == [valid |-> valid, items |-> items]
BadData == Data(FALSE, <<>>)

Envelope(code, msg, data) == [json |-> TRUE, code |-> code, msg |-> msg, data |-> data]
BadJSON == [json |-> FALSE, code |-> "", msg |-> <<>>, data |-> BadData]

TransportErrors ==
    { <<"i/o", "timeout">>,
      <<"connection reset", "by peer">>,
      <<"unexpected", "EOF">>,
      <<"connection refused">> }

\* lines 206-208 without the three substring tests: every transport error retried
IsRetryable_anyError(text) == Len(text) >= 0

\* the condition of lines 206-208 on err.Error()
IsRetryable(text) ==
    \/ Contains(text, "timeout")
    \/ Contains(text, "connection reset")
    \/ Contains(text, "EOF")

BTCSWAP == convertSymbol(BTCUSDT)
ETHSWAP == convertSymbol(ETHUSDT)

BalanceData ==
    { Data(TRUE, <<>>),
      Data(TRUE, << [totalEq |-> Num(100),
                     details |-> << [availEq |-> Num(60), eq |-> Num(100),
                                     bal |-> Num(90), availBal |-> Num(55),
                                     upl |-> Num(10)] >>] >>),
      Data(TRUE, << [totalEq |-> Num(80),
                     details |-> << [availEq |-> Num(40), eq |-> Num(80),
                                     bal |-> Num(90), availBal |-> Num(35),
                                     upl |-> Num(0 - 10)] >>] >>),
      BadData }

\* the "accounts" market: an account that lists no currency detail
NoDetailData == Data(TRUE, << [totalEq |-> Num(100), details |-> <<>>] >>)

RawPosition(instId, pos, lever) ==
    [instId |-> instId, pos |-> pos, avgPx |-> Num(100), markPx |-> Num(101),
     liqPx |-> Num(50), upl |-> Num(2), margin |-> Num(20), lever |-> lever,
     mgnMode |-> "cross", notionalUsd |-> Num(200)]

PositionsData ==
    { Data(TRUE, <<>>),
      Data(TRUE, << RawPosition(BTCSWAP, Num(2), Num(10)) >>),
      Data(TRUE, << RawPosition(BTCSWAP, Num(0), Num(10)),
                    RawPosition(ETHSWAP, Num(0 - 4), Num(5)) >>),
      BadData }

\* a symbol held on both sides (two records), the leverage differing
HedgedPositions ==
    Data(TRUE, << RawPosition(BTCSWAP, Num(2), Num(5)),
                  RawPosition(BTCSWAP, Num(0 - 1), Num(10)) >>)

\* the "raw" market: up to MaxRecords position records, the pos of each
\* empty (which ParseFloat rejects), zero, positive or negative, the
\* leverage telling the records of one instrument apart
RawPositionsData ==
    LET records == {RawPosition(instId, pos, lever) :
                       instId \in {BTCSWAP, ETHSWAP},
                       pos \in {<<>>, Num(0), Num(3), Num(0 - 2)},
                       lever \in {Num(5), Num(10)}}
    IN  {Data(TRUE, items) : items \in UNION {[1..k -> records] : k \in 0..MaxRecords}}

\* the "raw" market: accounts whose numbers are empty strings, whose
\* unrealized profit is above or below the total equity, or negative
RawBalanceData ==
    { Data(TRUE, << [totalEq |-> totalEq,
                     details |-> << [availEq |-> avail, eq |-> totalEq,
                                     bal |-> bal, availBal |-> avail,
                                     upl |-> upl] >>] >>) :
          totalEq \in {<<>>, Num(5), Num(100)},
          avail \in {<<>>, Num(4)},
          bal \in {<<>>, Num(90)},
          upl \in {<<>>, Num(10), Num(0 - 10)} }

InstrumentsData(instId) ==
    { Data(TRUE, <<>>),
      Data(TRUE, << [instId |-> instId, lotSz |-> <<1, 0>>, tickSz |-> <<1, 1>>,
                     minSz |-> <<1, 0>>] >>),
      BadData }

\* the instruments of the "specs" market: every lot size, tick size and
\* minimum size below, whole and fractional, the minimum a multiple of the
\* lot or not; all of them exact in float64
SpecsData(instId) ==
    { Data(TRUE, << [instId |-> instId, lotSz |-> lot, tickSz |-> tick, minSz |-> min] >>) :
          lot \in {<<1, 0>>, <<2, 0>>, <<5, 1>>},
          tick \in {<<0, 0>>, <<1, 0>>, <<5, 1>>, <<25, 2>>},
          min \in {<<1, 0>>, <<3, 0>>, <<5, 1>>, <<15, 1>>} }

\* the instruments of the "lots" market: two lot sizes, or none listed
LotsData(instId) ==
    { Data(TRUE, <<>>) }
      \cup { Data(TRUE, << [instId |-> instId, lotSz |-> lot, tickSz |-> <<5, 1>>,
                            minSz |-> <<1, 0>>] >>) : lot \in {<<1, 0>>, <<5, 1>>} }

\* the pending conditional orders of the "algo" market: a stop-loss, a
\* take-profit, one without trigger price and one with both trigger prices
MixedAlgoOrders(instId) ==
    << [algoId |-> "a1", instId |-> instId, slTriggerPx |-> "90", tpTriggerPx |-> ""],
       [algoId |-> "a2", instId |-> instId, slTriggerPx |-> "", tpTriggerPx |-> "110"],
       [algoId |-> "a3", instId |-> instId, slTriggerPx |-> "0", tpTriggerPx |-> "0"],
       [algoId |-> "a4", instId |-> instId, slTriggerPx |-> "80", tpTriggerPx |-> "120"] >>

PathBalance == "/api/v5/account/balance?ccy=USDT"
PathPositions == "/api/v5/account/positions"
PathInstruments == "/api/v5/public/instruments?instType=SWAP&instId="
PathSetLeverage == "/api/v5/account/set-leverage"
PathOrder == "/api/v5/trade/order"
PathCancelAllAfter == "/api/v5/trade/cancel-all-after"
PathOrdersPending == "/api/v5/trade/orders-pending?instId="
PathCancelOrder == "/api/v5/trade/cancel-order"
\* the query is the instrument ID followed by "&ordType=conditional"
PathAlgoPending == "/api/v5/trade/orders-algo-pending?instId="
PathCancelAlgo == "/api/v5/trade/cancel-algo"
PathOrderAlgo == "/api/v5/trade/order-algo"

\* the pending normal orders of an instrument
PendingOrdersData ==
    { Data(TRUE, <<>>),
      Data(TRUE, << [ordId |-> "o1"], [ordId |-> "o2"] >>),
      BadData }

\* the pending conditional orders: a stop-loss, a take-profit, one with
\* both trigger prices "0"
AlgoOrdersData(instId) ==
    { Data(TRUE, <<>>),
      Data(TRUE, << [algoId |-> "a1", instId |-> instId,
                     slTriggerPx |-> "90", tpTriggerPx |-> ""],
                    [algoId |-> "a2", instId |-> instId,
                     slTriggerPx |-> "", tpTriggerPx |-> "110"],
                    [algoId |-> "a3", instId |-> instId,
                     slTriggerPx |-> "0", tpTriggerPx |-> "0"] >>),
      BadData }

\* the data of an order placement: no result, one accepted, two of which
\* the first is accepted, one rejected, or no array at all
OrderData ==
    { Data(TRUE, <<>>),
      Data(TRUE, << [ordId |-> "7", sCode |-> "0", sMsg |-> <<>>] >>),
      Data(TRUE, << [ordId |-> "7", sCode |-> "0", sMsg |-> <<>>],
                    [ordId |-> "", sCode |-> "51008", sMsg |-> <<"insufficient", "margin">>] >>),
      Data(TRUE, << [ordId |-> "", sCode |-> "51008", sMsg |-> <<"insufficient", "margin">>] >>),
      BadData }

\* a request: method, endpoint (path \o query) and the JSON body (<<>> when nil)
Request(method, path, query, body) ==
    [method |-> method, path |-> path, query |-> query, body |-> body]
NoRequest == Request("", "", <<>>, <<>>)

\* the data field of a code "0" envelope, by endpoint
DataFor(req) ==
    IF req.path = PathBalance
    THEN IF cfg.market = "raw" THEN RawBalanceData
         ELSE BalanceData \cup (IF cfg.market = "accounts" THEN {NoDetailData} ELSE {})
    ELSE IF req.path = PathPositions
         THEN IF cfg.market = "raw" THEN RawPositionsData
              ELSE PositionsData \cup (IF cfg.market = "trade" THEN {HedgedPositions} ELSE {})
    ELSE IF req.path = PathInstruments
         THEN IF cfg.market = "specs" THEN SpecsData(req.query)
              ELSE IF cfg.market = "lots" THEN LotsData(req.query)
              ELSE IF cfg.market = "sizing"
              THEN SpecsData(req.query) \cup InstrumentsData(req.query)
              ELSE InstrumentsData(req.query)
    ELSE IF req.path = PathOrdersPending THEN PendingOrdersData
    ELSE IF req.path = PathAlgoPending
         THEN AlgoOrdersData(req.query)
                 \cup (IF cfg.market = "algo"
                       THEN {Data(TRUE, MixedAlgoOrders(req.query))} ELSE {})
    ELSE IF req.path = PathOrder THEN OrderData
    ELSE {Data(TRUE, <<>>)}

ErrorEnvelopes(req) ==
    {Envelope("51000", <<"param", "error">>, BadData)}
      \cup (IF req.path = PathSetLeverage
            THEN {Envelope("59000", <<"leverage", "already", "set">>, BadData)}
            ELSE {})
      \cup (IF req.path = PathSetLeverage /\ cfg.market = "trade"
            THEN {Envelope("59001", <<"same", "leverage">>, BadData)}
            ELSE {})

Reply(transportErr, readErr, status, body) ==
    [transportErr |-> transportErr, readErr |-> readErr, status |-> status, body |-> body]
NoReply == Reply(NoErr, FALSE, 0, BadJSON)

\* the replies of a sound network: success, an API error
PlainReplies(req) ==
    {Reply(NoErr, FALSE, StatusOK, b) : b \in ErrorEnvelopes(req)}
      \cup {Reply(NoErr, FALSE, StatusOK, Envelope("0", <<>>, d)) : d \in DataFor(req)}

\* the replies of every run: success, a retryable transport error, an API error
CoreReplies(req) ==
    {Reply(<<"i/o", "timeout">>, FALSE, 0, BadJSON)} \cup PlainReplies(req)

Replies(req) ==
    {Reply(e, FALSE, 0, BadJSON) : e \in TransportErrors}
      \cup {Reply(NoErr, TRUE, StatusOK, BadJSON)}
      \cup {Reply(NoErr, FALSE, 500, b) : b \in {BadJSON} \cup ErrorEnvelopes(req)}
      \cup {Reply(NoErr, FALSE, StatusOK, b) : b \in {BadJSON} \cup ErrorEnvelopes(req)}
      \cup {Reply(NoErr, FALSE, StatusOK, Envelope("0", <<>>, d)) : d \in DataFor(req)}

\* ages are counted up to MaxAge; the zero time.Time is older than that
MaxAge == cacheDuration + Slack

Unlocked == [readers |-> {}, writer |-> NoThread]
RLock(m, self) == [m EXCEPT !.readers = @ \cup {self}]
RUnlock(m, self) == [m EXCEPT !.readers = @ \ {self}]
Lock(m, self) == [m EXCEPT !.writer = self]
Unlock(m, self) == [m EXCEPT !.writer = NoThread]
\* RLock blocks while a writer holds the mutex; Lock blocks while anyone holds it
CanRLock(m) == m.writer = NoThread
CanLock(m) == m.writer = NoThread /\ m.readers = {}
Holds(m, self) == self \in m.readers \/ m.writer = self

NoCheck == <<>>
Observed(present, stored, age) ==
    <<[present |-> present, stored |-> stored, age |-> age]>>

IdleThread ==
    [pc |-> "idle", stack |-> <<>>, op |-> "none",
     symbol |-> <<>>, leverage |-> 0, quantity |-> 0, price |-> 0,
     algo |-> "", orders |-> <<>>,
     rv |-> Ok(<<>>),
     req |-> NoRequest, attempt |-> 0, lastErr |-> NoErr, sleep |-> 0,
     reply |-> NoReply, slept |-> <<>>,
     result |-> <<>>, chk |-> NoCheck, fetches |-> 0, sends |-> 0,
     log |-> <<>>, cooled |-> 0, given |-> 0, args |-> <<>>, quantityStr |-> <<>>,
     signed |-> <<>>, sent |-> <<>>, listed |-> <<>>, cancels |-> <<>>,
     ticket |-> 0]

Unbounded == 0 - 1
\* a run in which the exchange answers within the second: time passes in sleeps only
Instant == 0 - 2
Run(callers, budget, horizon, faults, market) ==
    [callers |-> callers, budget |-> budget, horizon |-> horizon, faults |-> faults,
     market |-> market]

\* lines 106-117: make(map[string]OKXSymbolPrecision)
NoPrecision == [k \in {} |-> <<>>]

\* lines 106-117: the fields the composite literal leaves out are zero values
Start ==
    /\ cachedBalance = <<>>
    /\ balanceCacheAge = MaxAge
    /\ balanceCacheMutex = Unlocked
    /\ cachedPositions = <<>>
    /\ positionsCacheAge = MaxAge
    /\ positionsCacheMutex = Unlocked
    /\ symbolPrecision = NoPrecision
    /\ precisionMutex = Unlocked
    /\ th = [t \in Threads |-> IdleThread]
    /\ started = 0
    /\ elapsed = 0
    /\ calls = [balance |-> 0, positions |-> 0]
    /\ fetched = [balance |-> 0, positions |-> 0]
    /\ lastLock = [balance |-> NoThread, positions |-> NoThread]
    /\ lastWrite = [balance |-> <<>>, positions |-> <<>>]

\* every operation, called by one thread (every reply) or by all (core replies)
Init ==
    /\ cfg \in {Run({1}, SoloCalls, Unbounded, "every", "basic"),
                Run(Threads, MaxCalls, Horizon, "core", "basic")}
    /\ Start

\* one caller of the two TTL caches, over more than a TTL
InitTTL ==
    /\ cfg = Run({1}, TTLCalls, Unbounded, "core", "basic")
    /\ Start

\* all threads calling getPrecision, GetBalance and GetPositions, every HTTP
\* call answered
InitLive ==
    /\ cfg = Run(Threads, MaxCalls + 1, Instant, "api", "basic")
    /\ Start

\* all threads calling GetBalance and GetPositions, the writes of the caches
\* taken line by line
InitPair ==
    /\ cfg = Run(Threads, MaxCalls + 1, Horizon, "api", "basic")
    /\ Start

\* one caller of the two TTL caches, every reply, over more than a TTL
InitStale ==
    /\ cfg = Run({1}, MaxCalls, Unbounded, "every", "accounts")
    /\ Start

\* one caller of SetLeverage, every reply, positions held on both sides
InitLeverage ==
    /\ cfg = Run({1}, MaxCalls, Unbounded, "every", "trade")
    /\ Start

\* one call of an order operation or of CancelAllOrders
InitTrade ==
    /\ cfg = Run({1}, SoloCalls, Instant, "api", "trade")
    /\ Start

\* one call of FormatQuantity or formatPrice, over every instrument
InitFormat ==
    /\ cfg = Run({1}, SoloCalls, Instant, "api", "specs")
    /\ Start

\* one call of CancelStopLossOrders or CancelTakeProfitOrders
InitAlgo ==
    /\ cfg = Run({1}, SoloCalls, Instant, "api", "algo")
    /\ Start

\* one conversion of a symbol, there and back
InitSymbols ==
    /\ cfg = Run({1}, SoloCalls, Instant, "api", "basic")
    /\ Start

\* one call of GetBalance or GetPositions, over every account and every list
\* of position records
InitNormalize ==
    /\ cfg = Run({1}, SoloCalls, Instant, "api", "raw")
    /\ Start

\* one caller of getPrecision, over more than the TTL of the other caches
InitPrecision ==
    /\ cfg = Run({1}, MaxCalls, cacheDuration + Slack, "api", "lots")
    /\ Start

\* one call of a close with a quantity, of FormatQuantity or of a
\* conditional order, over every instrument and every failure to fetch it
InitSizing ==
    /\ cfg = Run({1}, SoloCalls, Instant, "api", "sizing")
    /\ Start

\* one close, its requests retried over the seconds the back-offs take
InitSign ==
    /\ cfg = Run({1}, SoloCalls, maxRetries, "wire", "basic")
    /\ Start

\* all threads calling the two TTL caches, over more than a TTL
InitShared ==
    /\ cfg = Run(Threads, MaxCalls, Unbounded, "core", "basic")
    /\ Start

At(self, label) == th[self].pc = label

\* return v to the caller: continue at the label on top of the stack
ReturnTo(rec, v) ==
    [rec EXCEPT !.pc = Head(rec.stack), !.stack = Tail(rec.stack), !.rv = v]

\* the locals of a makeRequest call that has returned are gone
DropFrame(rec) ==
    [rec EXCEPT !.req = NoRequest, !.attempt = 0, !.lastErr = NoErr, !.slept = <<>>,
                !.signed = <<>>, !.sent = <<>>]

\* call a function: continue at its first label, come back at ret
Enter(rec, entry, ret) ==
    [rec EXCEPT !.pc = entry, !.stack = <<ret>> \o @]

(***************************************************************************)
(* makeRequest (lines 164-252).  Entering it serializes the body, takes    *)
(* the timestamp and signs; each attempt is client.Do: the request is sent *)
(* and in flight (pc MR_InFlight) until a reply arrives (MR_Reply).        *)
(***************************************************************************)
\* line 179
baseURL == "https://www.okx.com"

\* lines 169-175: json.Marshal(body) as text; "" (<<>>) when body is nil
Marshal(body) == IF body = <<>> THEN <<>> ELSE <<"json">> \o body

\* line 185 with the query string cut from the path that is signed
SignedPath_withoutQuery(req) == <<req.path, <<>> >>

\* line 185: the endpoint, query string included, goes to the signer
SignedPath(req) == <<req.path, req.query>>

\* line 179: fullURL := t.baseURL + endpoint
FullURL(req) == <<baseURL, req.path, req.query>>

\* the request target http.NewRequest derives from the URL: what follows the host
RequestURI(url) == <<url[2], url[3]>>

\* lines 182-185 and 151-161: the timestamp is taken, and the signature is
\* the HMAC of timestamp + method + requestPath + body (the record stands
\* for the HMAC of its fields)
Signature(now, req) ==
    [timestamp |-> now, method |-> req.method, requestPath |-> SignedPath(req),
     body |-> Marshal(req.body)]

\* lines 188-197: the request object all attempts use, as the first
\* attempt writes it
FirstAttempt(now, req) ==
    [method |-> req.method, line |-> RequestURI(FullURL(req)),
     body |-> Marshal(req.body), stamp |-> now, sign |-> Signature(now, req),
     written |-> TRUE]

EnterMakeRequest(rec, req, ret) ==
    [Enter(rec, "MR_InFlight", ret) EXCEPT
        !.req = req, !.attempt = 1, !.lastErr = NoErr,
        !.reply = NoReply, !.slept = <<>>, !.fetches = @ + 1, !.sends = @ + 1,
        !.log = Append(@, [path |-> req.path, outcome |-> "sent"]),
        !.signed = <<Signature(elapsed, req)>>,
        !.sent = <<FirstAttempt(elapsed, req)>>]

\* makeRequest returns v to its caller: the request has succeeded or failed
Answer(rec, v) ==
    ReturnTo([rec EXCEPT !.log[Len(rec.log)].outcome =
                            IF v.err = NoErr THEN "ok" ELSE "failed"], v)

\* lines 206-208 with the test of the error text forgotten
ShouldRetry_ignoresText(attempt, text) == attempt < maxRetries /\ Len(text) >= 0

\* lines 206-208
ShouldRetry(attempt, text) == attempt < maxRetries /\ IsRetryable(text)

\* line 209 sleeping time.Second whatever the attempt
BackoffSeconds_constant(attempt) == IF attempt >= 1 THEN 1 ELSE 0

\* line 209: time.Duration(attempt) * time.Second
BackoffSeconds(attempt) == attempt

\* lines 204-248: what one reply does to the call
AfterReply(rec, r) ==
    LET h == [rec EXCEPT !.reply = r]
        lastErr == Wrap(ErrHTTPRequest, r.transportErr)
    IN  IF r.transportErr # NoErr
        THEN IF ShouldRetry(rec.attempt, r.transportErr)
             THEN [h EXCEPT !.lastErr = lastErr, !.pc = "MR_Sleep",
                            !.sleep = BackoffSeconds(rec.attempt),
                            !.slept = Append(@, BackoffSeconds(rec.attempt))]
             ELSE Answer([h EXCEPT !.lastErr = lastErr], Fail(lastErr))
        ELSE IF r.readErr
        THEN Answer(h, Fail(<<ErrReadBody>>))
        ELSE IF r.status # StatusOK
        THEN IF r.body.json
             THEN Answer(h, Fail(<<ErrOKXAPI, r.body.code>> \o r.body.msg))
             ELSE Answer(h, Fail(<<ErrHTTPStatus, ToString(r.status)>>))
        ELSE IF ~r.body.json
        THEN Answer(h, Fail(<<ErrParseResponse>>))
        ELSE IF r.body.code # "0"
        THEN Answer(h, Fail(<<ErrOKXAPI, r.body.code>> \o r.body.msg))
        ELSE Answer(h, Ok(r.body.data))

\* the replies at the "wire" level: the core replies, and for an attempt
\* whose body the attempt before it has consumed the refusal of the
\* transport to write it
WireReplies(rec) ==
    IF Last(rec.sent).written THEN CoreReplies(rec.req)
    ELSE {Reply(<<"http: ContentLength", "with Body length 0">>, FALSE, 0, BadJSON)}

\* lines 203-248: the reply to the attempt in flight
MR_Reply(self) ==
    /\ At(self, "MR_InFlight")
    /\ \E r \in (IF cfg.faults = "every" THEN Replies(th[self].req)
                 ELSE IF cfg.faults = "core" THEN CoreReplies(th[self].req)
                 ELSE IF cfg.faults = "wire" THEN WireReplies(th[self])
                 ELSE PlainReplies(th[self].req)) :
          th' = [th EXCEPT ![self] = AfterReply(th[self], r)]
    /\ UNCHANGED <<cfg, balanceVars, positionsVars, precisionVars, historyVars>>

\* line 203 on a later attempt: client.Do(req) with the request object of
\* the first attempt, its headers as they were set.  The body is the
\* bytes.Buffer the first attempt read from: it is whole if that attempt
\* failed before reading it, and empty (consumed) otherwise, in which case
\* nothing is written.  At the "wire" level both are followed.
BodyLeft(rec) ==
    IF cfg.faults = "wire" /\ rec.req.body # <<>> THEN BOOLEAN ELSE {TRUE}

\* lines 202-203 with the timestamp and the signature made anew for the attempt
MR_Wake_resigns(self) ==
    /\ At(self, "MR_Sleep")
    /\ th[self].sleep = 0
    /\ th' = [th EXCEPT ![self] =
                [@ EXCEPT !.pc = "MR_InFlight", !.attempt = @ + 1, !.sends = @ + 1,
                          !.sent = Append(@, FirstAttempt(elapsed, th[self].req))]]
    /\ UNCHANGED <<cfg, balanceVars, positionsVars, precisionVars, historyVars>>

\* lines 209-210, 202-203 and 251: the back-off ends, the loop goes on
MR_Wake(self) ==
    /\ At(self, "MR_Sleep")
    /\ th[self].sleep = 0
    /\ \E whole \in BodyLeft(th[self]) :
          th' = [th EXCEPT ![self] =
                IF th[self].attempt + 1 <= maxRetries
                THEN [@ EXCEPT !.pc = "MR_InFlight", !.attempt = @ + 1,
                               !.sends = @ + 1,
                               !.sent = Append(@, [Last(@) EXCEPT
                                            !.body = IF whole THEN @ ELSE <<>>,
                                            !.written = whole])]
                ELSE Answer([@ EXCEPT !.attempt = @ + 1],
                            Fail(Wrap(ErrRetriesExhausted, th[self].lastErr)))]
    /\ UNCHANGED <<cfg, balanceVars, positionsVars, precisionVars, historyVars>>

(***************************************************************************)
(* The TTL test of lines 417 and 498:                                      *)
(*   cached != nil && time.Since(cacheTime) < t.cacheDuration              *)
(***************************************************************************)
\* the TTL test with the comparison turned round
CacheValid_expiredOnly(present, age) == present /\ age > cacheDuration

\* the TTL test with <= for <
CacheValid_inclusive(present, age) == present /\ age <= cacheDuration

CacheValid(present, age) == present /\ age < cacheDuration

(***************************************************************************)
(* GetBalance (lines 414-492).                                             *)
(***************************************************************************)
\* lines 457-480: the normalized balance map
NormalizeBalance(account) ==
    LET detail == account.details[1]
        totalEq == ParseFloat(account.totalEq)
        availEq == ParseFloat(detail.availEq)
        eq == ParseFloat(detail.eq)
        bal == ParseFloat(detail.bal)
        availBal == ParseFloat(detail.availBal)
        upl == ParseFloat(detail.upl)
    IN  [totalWalletBalance |-> totalEq - upl,
         availableBalance |-> availEq,
         totalUnrealizedProfit |-> upl,
         total_balance |-> totalEq,
         available_balance |-> availEq,
         balance |-> bal,
         available_balance_ccy |-> availBal,
         equity |-> eq,
         total_equity |-> totalEq]

\* lines 416-418: RLock, then the TTL test under the read lock
GB_RLock(self) ==
    /\ At(self, "GB_RLock")
    /\ CanRLock(balanceCacheMutex)
    /\ balanceCacheMutex' = RLock(balanceCacheMutex, self)
    /\ calls' = [calls EXCEPT !.balance = @ + 1]
    /\ th' = [th EXCEPT ![self] = [@ EXCEPT
                !.chk = Observed(cachedBalance # <<>>, lastWrite.balance # <<>>,
                                 balanceCacheAge),
                !.pc = IF CacheValid(cachedBalance # <<>>, balanceCacheAge)
                       THEN "GB_HitRUnlock" ELSE "GB_MissRUnlock"]]
    /\ UNCHANGED <<cfg, positionsVars, cachedBalance, balanceCacheAge,
                   precisionVars, started, elapsed, fetched, lastLock, lastWrite>>

\* line 419 left out: the hit returns with the read lock held
GB_HitRUnlock_keepsLock(self) ==
    /\ At(self, "GB_HitRUnlock")
    /\ th' = [th EXCEPT ![self] = [@ EXCEPT !.pc = "GB_HitReturn"]]
    /\ UNCHANGED <<cfg, balanceVars, positionsVars, precisionVars, historyVars>>

\* line 419
GB_HitRUnlock(self) ==
    /\ At(self, "GB_HitRUnlock")
    /\ balanceCacheMutex' = RUnlock(balanceCacheMutex, self)
    /\ th' = [th EXCEPT ![self] = [@ EXCEPT !.pc = "GB_HitReturn"]]
    /\ UNCHANGED <<cfg, cachedBalance, balanceCacheAge, positionsVars,
                   precisionVars, historyVars>>

\* line 421: return t.cachedBalance, nil
GB_HitReturn(self) ==
    /\ At(self, "GB_HitReturn")
    /\ th' = [th EXCEPT ![self] = ReturnTo(@, Ok(cachedBalance))]
    /\ UNCHANGED <<cfg, balanceVars, positionsVars, precisionVars, historyVars>>

\* lines 423-427 with the RUnlock of line 423 left out
GB_MissRUnlock_keepsLock(self) ==
    /\ At(self, "GB_MissRUnlock")
    /\ fetched' = [fetched EXCEPT !.balance = @ + 1]
    /\ th' = [th EXCEPT ![self] =
                EnterMakeRequest([@ EXCEPT !.ticket = fetched.balance + 1],
                                 Request("GET", PathBalance, <<>>, <<>>), "GB_Parse")]
    /\ UNCHANGED <<cfg, balanceVars, positionsVars,
                   precisionVars, started, elapsed, calls, lastLock, lastWrite>>

\* lines 423-427; th.ticket numbers the fetches of the cache in the order in
\* which their requests are issued
GB_MissRUnlock(self) ==
    /\ At(self, "GB_MissRUnlock")
    /\ balanceCacheMutex' = RUnlock(balanceCacheMutex, self)
    /\ fetched' = [fetched EXCEPT !.balance = @ + 1]
    /\ th' = [th EXCEPT ![self] =
                EnterMakeRequest([@ EXCEPT !.ticket = fetched.balance + 1],
                                 Request("GET", PathBalance, <<>>, <<>>), "GB_Parse")]
    /\ UNCHANGED <<cfg, cachedBalance, balanceCacheAge, positionsVars,
                   precisionVars, started, elapsed, calls, lastLock, lastWrite>>

\* lines 428-483 answering a failed fetch with the payload the cache holds
GB_Parse_servesStale(self) ==
    /\ At(self, "GB_Parse")
    /\ LET r == th[self].rv
       IN  th' = [th EXCEPT ![self] =
                IF r.err # NoErr
                THEN ReturnTo(DropFrame(@),
                              IF cachedBalance # <<>> THEN Ok(cachedBalance)
                              ELSE Fail(Wrap(ErrGetBalance, r.err)))
                ELSE IF ~r.val.valid
                THEN ReturnTo(DropFrame(@), Fail(<<ErrParseBalance>>))
                ELSE IF Len(r.val.items) = 0 \/ Len(r.val.items[1].details) = 0
                THEN ReturnTo(DropFrame(@), Fail(<<ErrNoBalance>>))
                ELSE [DropFrame(@) EXCEPT !.pc = "GB_Lock",
                               !.result = <<NormalizeBalance(r.val.items[1])>>]]
    /\ UNCHANGED <<cfg, balanceVars, positionsVars, precisionVars, historyVars>>

\* lines 428-483
GB_Parse(self) ==
    /\ At(self, "GB_Parse")
    /\ LET r == th[self].rv
       IN  th' = [th EXCEPT ![self] =
                IF r.err # NoErr
                THEN ReturnTo(DropFrame(@), Fail(Wrap(ErrGetBalance, r.err)))
                ELSE IF ~r.val.valid
                THEN ReturnTo(DropFrame(@), Fail(<<ErrParseBalance>>))
                ELSE IF Len(r.val.items) = 0 \/ Len(r.val.items[1].details) = 0
                THEN ReturnTo(DropFrame(@), Fail(<<ErrNoBalance>>))
                ELSE [DropFrame(@) EXCEPT !.pc = "GB_Lock",
                               !.result = <<NormalizeBalance(r.val.items[1])>>]]
    /\ UNCHANGED <<cfg, balanceVars, positionsVars, precisionVars, historyVars>>

\* lines 486-488: Lock, then both fields are written under the write lock
GB_Lock(self) ==
    /\ At(self, "GB_Lock")
    /\ CanLock(balanceCacheMutex)
    /\ balanceCacheMutex' = Lock(balanceCacheMutex, self)
    /\ cachedBalance' = th[self].result
    /\ balanceCacheAge' = 0
    /\ lastLock' = [lastLock EXCEPT !.balance = self]
    /\ lastWrite' = [lastWrite EXCEPT !.balance =
                        <<[by |-> self, payload |-> th[self].result, age |-> 0]>>]
    /\ th' = [th EXCEPT ![self] = [@ EXCEPT !.pc = "GB_Unlock"]]
    /\ UNCHANGED <<cfg, positionsVars, precisionVars, started, elapsed, calls, fetched>>

\* lines 489-491
GB_Unlock(self) ==
    /\ At(self, "GB_Unlock")
    /\ balanceCacheMutex' = Unlock(balanceCacheMutex, self)
    /\ th' = [th EXCEPT ![self] = ReturnTo(@, Ok(th[self].result))]
    /\ UNCHANGED <<cfg, cachedBalance, balanceCacheAge, positionsVars,
                   precisionVars, historyVars>>

(***************************************************************************)
(* GetPositions (lines 495-603).                                           *)
(***************************************************************************)
\* lines 550-592 without the sign test of lines 552-556: the amount as parsed
NormalizePosition_signed(pos, posAmt) ==
    LET upl == ParseFloat(pos.upl)
    IN  [symbol |-> reverseSymbol(pos.instId),
         positionAmt |-> posAmt,
         entryPrice |-> ParseFloat(pos.avgPx),
         markPrice |-> ParseFloat(pos.markPx),
         unRealizedProfit |-> upl,
         unrealizedPnl |-> upl,
         leverage |-> ParseFloat(pos.lever),
         margin |-> ParseFloat(pos.margin),
         notional |-> ParseFloat(pos.notionalUsd),
         liquidationPrice |-> ParseFloat(pos.liqPx),
         side |-> "long",
         positionSide |-> "long",
         marginMode |-> pos.mgnMode,
         marginType |-> pos.mgnMode]

\* lines 550-592: one raw record, its pos already parsed and non-zero
NormalizePosition(pos, posAmt) ==
    LET side == IF posAmt < 0 THEN "short" ELSE "long"
        upl == ParseFloat(pos.upl)
    IN  [symbol |-> reverseSymbol(pos.instId),
         positionAmt |-> IF posAmt < 0 THEN 0 - posAmt ELSE posAmt,
         entryPrice |-> ParseFloat(pos.avgPx),
         markPrice |-> ParseFloat(pos.markPx),
         unRealizedProfit |-> upl,
         unrealizedPnl |-> upl,
         leverage |-> ParseFloat(pos.lever),
         margin |-> ParseFloat(pos.margin),
         notional |-> ParseFloat(pos.notionalUsd),
         liquidationPrice |-> ParseFloat(pos.liqPx),
         side |-> side,
         positionSide |-> side,
         marginMode |-> pos.mgnMode,
         marginType |-> pos.mgnMode]

\* lines 546-593: var result (nil); append one map per record with pos # 0
RECURSIVE NormalizePositions(_)
NormalizePositions(positions) ==
    IF positions = <<>> THEN <<>>
    ELSE LET posAmt == ParseFloat(Head(positions).pos)
         IN  IF posAmt = 0
             THEN NormalizePositions(Tail(positions))
             ELSE <<NormalizePosition(Head(positions), posAmt)>>
                      \o NormalizePositions(Tail(positions))

\* lines 497-499: RLock, then the TTL test under the read lock
GP_RLock(self) ==
    /\ At(self, "GP_RLock")
    /\ CanRLock(positionsCacheMutex)
    /\ positionsCacheMutex' = RLock(positionsCacheMutex, self)
    /\ calls' = [calls EXCEPT !.positions = @ + 1]
    /\ th' = [th EXCEPT ![self] = [@ EXCEPT
                !.chk = Observed(cachedPositions # <<>>, lastWrite.positions # <<>>,
                                 positionsCacheAge),
                !.pc = IF CacheValid(cachedPositions # <<>>, positionsCacheAge)
                       THEN "GP_HitRUnlock" ELSE "GP_MissRUnlock"]]
    /\ UNCHANGED <<cfg, balanceVars, cachedPositions, positionsCacheAge,
                   precisionVars, started, elapsed, fetched, lastLock, lastWrite>>

\* line 500
GP_HitRUnlock(self) ==
    /\ At(self, "GP_HitRUnlock")
    /\ positionsCacheMutex' = RUnlock(positionsCacheMutex, self)
    /\ th' = [th EXCEPT ![self] = [@ EXCEPT !.pc = "GP_HitReturn"]]
    /\ UNCHANGED <<cfg, balanceVars, cachedPositions, positionsCacheAge,
                   precisionVars, historyVars>>

\* line 502: return t.cachedPositions, nil
GP_HitReturn(self) ==
    /\ At(self, "GP_HitReturn")
    /\ th' = [th EXCEPT ![self] = ReturnTo(@, Ok(cachedPositions))]
    /\ UNCHANGED <<cfg, balanceVars, positionsVars, precisionVars, historyVars>>

\* lines 504-508
GP_MissRUnlock(self) ==
    /\ At(self, "GP_MissRUnlock")
    /\ positionsCacheMutex' = RUnlock(positionsCacheMutex, self)
    /\ fetched' = [fetched EXCEPT !.positions = @ + 1]
    /\ th' = [th EXCEPT ![self] =
                EnterMakeRequest([@ EXCEPT !.ticket = fetched.positions + 1],
                                 Request("GET", PathPositions, <<>>, <<>>), "GP_Parse")]
    /\ UNCHANGED <<cfg, balanceVars, cachedPositions, positionsCacheAge,
                   precisionVars, started, elapsed, calls, lastLock, lastWrite>>

\* lines 509-593
GP_Parse(self) ==
    /\ At(self, "GP_Parse")
    /\ LET r == th[self].rv
       IN  th' = [th EXCEPT ![self] =
                IF r.err # NoErr
                THEN ReturnTo(DropFrame(@), Fail(Wrap(ErrGetPositions, r.err)))
                ELSE IF ~r.val.valid
                THEN ReturnTo(DropFrame(@), Fail(<<ErrParsePositions>>))
                ELSE [DropFrame(@) EXCEPT !.pc = "GP_Lock",
                               !.result = NormalizePositions(r.val.items)]]
    /\ UNCHANGED <<cfg, balanceVars, positionsVars, precisionVars, historyVars>>

\* lines 596-598 storing the result only when the cache holds nothing yet
GP_Lock_keepFirst(self) ==
    /\ At(self, "GP_Lock")
    /\ CanLock(positionsCacheMutex)
    /\ positionsCacheMutex' = Lock(positionsCacheMutex, self)
    /\ cachedPositions' = IF cachedPositions = <<>> THEN th[self].result ELSE cachedPositions
    /\ positionsCacheAge' = IF cachedPositions = <<>> THEN 0 ELSE positionsCacheAge
    /\ lastLock' = [lastLock EXCEPT !.positions = self]
    /\ lastWrite' = [lastWrite EXCEPT !.positions =
                        <<[by |-> self, payload |-> th[self].result, age |-> 0]>>]
    /\ th' = [th EXCEPT ![self] = [@ EXCEPT !.pc = "GP_Unlock"]]
    /\ UNCHANGED <<cfg, balanceVars, precisionVars, started, elapsed, calls, fetched>>

\* lines 596-598: Lock, then both fields are written under the write lock
GP_Lock(self) ==
    /\ At(self, "GP_Lock")
    /\ CanLock(positionsCacheMutex)
    /\ positionsCacheMutex' = Lock(positionsCacheMutex, self)
    /\ cachedPositions' = th[self].result
    /\ positionsCacheAge' = 0
    /\ lastLock' = [lastLock EXCEPT !.positions = self]
    /\ lastWrite' = [lastWrite EXCEPT !.positions =
                        <<[by |-> self, payload |-> th[self].result, age |-> 0]>>]
    /\ th' = [th EXCEPT ![self] = [@ EXCEPT !.pc = "GP_Unlock"]]
    /\ UNCHANGED <<cfg, balanceVars, precisionVars, started, elapsed, calls, fetched>>

\* lines 599-602
GP_Unlock(self) ==
    /\ At(self, "GP_Unlock")
    /\ positionsCacheMutex' = Unlock(positionsCacheMutex, self)
    /\ th' = [th EXCEPT ![self] = ReturnTo(@, Ok(th[self].result))]
    /\ UNCHANGED <<cfg, balanceVars, cachedPositions, positionsCacheAge,
                   precisionVars, historyVars>>

(***************************************************************************)
(* The write of a cache (lines 485-489 and 595-599) one line at a time:    *)
(* Lock, the payload, the cache time, Unlock.  lastWrite tells for each    *)
(* cache which fetch the payload is of (ticket), which fetch stored the    *)
(* cache time (stamped) and when (at).                                     *)
(***************************************************************************)
NeverWritten == [by |-> NoThread, payload |-> <<>>, age |-> MaxAge,
                 ticket |-> 0, stamped |-> 0, at |-> 0]
Written(c) == IF lastWrite[c] = <<>> THEN NeverWritten ELSE lastWrite[c][1]

\* line 486 without the Lock
GB_Acquire_noLock(self) ==
    /\ At(self, "GB_Lock")
    /\ lastLock' = [lastLock EXCEPT !.balance = self]
    /\ th' = [th EXCEPT ![self] = [@ EXCEPT !.pc = "GB_Store"]]
    /\ UNCHANGED <<cfg, balanceVars, positionsVars, precisionVars, started, elapsed,
                   calls, fetched, lastWrite>>

\* line 486
GB_Acquire(self) ==
    /\ At(self, "GB_Lock")
    /\ CanLock(balanceCacheMutex)
    /\ balanceCacheMutex' = Lock(balanceCacheMutex, self)
    /\ lastLock' = [lastLock EXCEPT !.balance = self]
    /\ th' = [th EXCEPT ![self] = [@ EXCEPT !.pc = "GB_Store"]]
    /\ UNCHANGED <<cfg, cachedBalance, balanceCacheAge, positionsVars, precisionVars,
                   started, elapsed, calls, fetched, lastWrite>>

\* line 487 keeping the payload of a fetch that was issued later
GB_StorePayload_keepsNewer(self) ==
    /\ At(self, "GB_Store")
    /\ cachedBalance' = IF Written("balance").ticket > th[self].ticket
                        THEN cachedBalance ELSE th[self].result
    /\ lastWrite' = [lastWrite EXCEPT !.balance =
                        IF Written("balance").ticket > th[self].ticket
                        THEN @
                        ELSE <<[Written("balance") EXCEPT !.by = self,
                                                          !.payload = th[self].result,
                                                          !.ticket = th[self].ticket]>>]
    /\ th' = [th EXCEPT ![self] = [@ EXCEPT !.pc = "GB_Stamp"]]
    /\ UNCHANGED <<cfg, balanceCacheAge, balanceCacheMutex, positionsVars, precisionVars,
                   started, elapsed, calls, fetched, lastLock>>

\* line 487
GB_StorePayload(self) ==
    /\ At(self, "GB_Store")
    /\ cachedBalance' = th[self].result
    /\ lastWrite' = [lastWrite EXCEPT !.balance =
                        <<[Written("balance") EXCEPT !.by = self,
                                                     !.payload = th[self].result,
                                                     !.ticket = th[self].ticket]>>]
    /\ th' = [th EXCEPT ![self] = [@ EXCEPT !.pc = "GB_Stamp"]]
    /\ UNCHANGED <<cfg, balanceCacheAge, balanceCacheMutex, positionsVars, precisionVars,
                   started, elapsed, calls, fetched, lastLock>>

\* line 488
GB_StoreTime(self) ==
    /\ At(self, "GB_Stamp")
    /\ balanceCacheAge' = 0
    /\ lastWrite' = [lastWrite EXCEPT !.balance =
                        <<[Written("balance") EXCEPT !.age = 0,
                                                     !.stamped = th[self].ticket,
                                                     !.at = elapsed]>>]
    /\ th' = [th EXCEPT ![self] = [@ EXCEPT !.pc = "GB_Unlock"]]
    /\ UNCHANGED <<cfg, cachedBalance, balanceCacheMutex, positionsVars, precisionVars,
                   started, elapsed, calls, fetched, lastLock>>

\* line 596
GP_Acquire(self) ==
    /\ At(self, "GP_Lock")
    /\ CanLock(positionsCacheMutex)
    /\ positionsCacheMutex' = Lock(positionsCacheMutex, self)
    /\ lastLock' = [lastLock EXCEPT !.positions = self]
    /\ th' = [th EXCEPT ![self] = [@ EXCEPT !.pc = "GP_Store"]]
    /\ UNCHANGED <<cfg, balanceVars, cachedPositions, positionsCacheAge, precisionVars,
                   started, elapsed, calls, fetched, lastWrite>>

\* line 597
GP_StorePayload(self) ==
    /\ At(self, "GP_Store")
    /\ cachedPositions' = th[self].result
    /\ lastWrite' = [lastWrite EXCEPT !.positions =
                        <<[Written("positions") EXCEPT !.by = self,
                                                       !.payload = th[self].result,
                                                       !.ticket = th[self].ticket]>>]
    /\ th' = [th EXCEPT ![self] = [@ EXCEPT !.pc = "GP_Stamp"]]
    /\ UNCHANGED <<cfg, balanceVars, positionsCacheAge, positionsCacheMutex, precisionVars,
                   started, elapsed, calls, fetched, lastLock>>

\* line 598
GP_StoreTime(self) ==
    /\ At(self, "GP_Stamp")
    /\ positionsCacheAge' = 0
    /\ lastWrite' = [lastWrite EXCEPT !.positions =
                        <<[Written("positions") EXCEPT !.age = 0,
                                                       !.stamped = th[self].ticket,
                                                       !.at = elapsed]>>]
    /\ th' = [th EXCEPT ![self] = [@ EXCEPT !.pc = "GP_Unlock"]]
    /\ UNCHANGED <<cfg, balanceVars, cachedPositions, positionsCacheMutex, precisionVars,
                   started, elapsed, calls, fetched, lastLock>>

(***************************************************************************)
(* SetLeverage (lines 620-665).                                            *)
(***************************************************************************)
Leverages == {10}

\* lines 626-636: the first position of the symbol decides (break)
RECURSIVE LeverageAlreadySet(_, _, _)
LeverageAlreadySet(positions, symbol, leverage) ==
    IF positions = <<>> THEN FALSE
    ELSE IF Head(positions).symbol = symbol
         THEN Head(positions).leverage = leverage
         ELSE LeverageAlreadySet(Tail(positions), symbol, leverage)

\* lines 624-648: the positions read has returned
SL_Scan(self) ==
    /\ At(self, "SL_Scan")
    /\ LET r == th[self].rv
           symbol == th[self].symbol
           leverage == th[self].leverage
           params == [instId |-> convertSymbol(symbol), lever |-> leverage,
                      mgnMode |-> "cross"]
       IN  th' = [th EXCEPT ![self] =
                IF r.err = NoErr /\ LeverageAlreadySet(r.val, symbol, leverage)
                THEN ReturnTo(@, Ok(<<>>))
                ELSE EnterMakeRequest(@, Request("POST", PathSetLeverage, <<>>, <<params>>),
                                      "SL_AfterPost")]
    /\ UNCHANGED <<cfg, balanceVars, positionsVars, precisionVars, historyVars>>

\* line 651 testing for "already" alone
MeansAlreadySet_onlyAlready(err) == Contains(err, "already")

\* line 651: the rejection says the leverage is the target already
MeansAlreadySet(err) == Contains(err, "already") \/ Contains(err, "same")

\* lines 649-662
SL_AfterPost(self) ==
    /\ At(self, "SL_AfterPost")
    /\ LET r == th[self].rv
       IN  th' = [th EXCEPT ![self] =
                IF r.err # NoErr
                THEN IF MeansAlreadySet(r.err)
                     THEN ReturnTo(DropFrame(@), Ok(<<>>))
                     ELSE ReturnTo(DropFrame(@), Fail(Wrap(ErrSetLeverage, r.err)))
                ELSE [DropFrame(@) EXCEPT !.pc = "SL_Cooldown", !.sleep = CooldownSeconds]]
    /\ UNCHANGED <<cfg, balanceVars, positionsVars, precisionVars, historyVars>>

\* line 662 returning before the three seconds are over
SL_Wake_early(self) ==
    /\ At(self, "SL_Cooldown")
    /\ th' = [th EXCEPT ![self] = ReturnTo(@, Ok(<<>>))]
    /\ UNCHANGED <<cfg, balanceVars, positionsVars, precisionVars, historyVars>>

\* lines 662-664: the cooldown ends
SL_Wake(self) ==
    /\ At(self, "SL_Cooldown")
    /\ th[self].sleep = 0
    /\ th' = [th EXCEPT ![self] = ReturnTo(@, Ok(<<>>))]
    /\ UNCHANGED <<cfg, balanceVars, positionsVars, precisionVars, historyVars>>

(***************************************************************************)
(* getInstrumentInfo (lines 268-288) and getPrecision (lines 291-337).     *)
(***************************************************************************)
\* lines 273-287
GI_Parse(self) ==
    /\ At(self, "GI_Parse")
    /\ LET r == th[self].rv
       IN  th' = [th EXCEPT ![self] =
                IF r.err # NoErr
                THEN ReturnTo(DropFrame(@), Fail(r.err))
                ELSE IF ~r.val.valid
                THEN ReturnTo(DropFrame(@), Fail(<<ErrParseInstruments>>))
                ELSE IF Len(r.val.items) = 0
                THEN ReturnTo(DropFrame(@), Fail(<<ErrNoInstrument>>))
                ELSE ReturnTo(DropFrame(@), Ok(r.val.items[1]))]
    /\ UNCHANGED <<cfg, balanceVars, positionsVars, precisionVars, historyVars>>

\* lines 308-329
Precision(info) ==
    LET lotSz == ParseDecimal(info.lotSz)
        tickSz == ParseDecimal(info.tickSz)
        minSz == ParseDecimal(info.minSz)
    IN  [PricePrecision |-> IF tickSz[1] > 0 THEN TrimmedLen(tickSz) ELSE 0,
         QuantityPrecision |-> IF lotSz[1] > 0 THEN TrimmedLen(lotSz) ELSE 0,
         TickSize |-> tickSz,
         StepSize |-> lotSz,
         MinSize |-> minSz]

\* lines 294-295 with the map read under the caller's symbol
PR_RLock_bySymbol(self) ==
    /\ At(self, "PR_RLock")
    /\ CanRLock(precisionMutex)
    /\ precisionMutex' = RLock(precisionMutex, self)
    /\ th' = [th EXCEPT ![self] =
                IF th[self].symbol \in DOMAIN symbolPrecision
                THEN [@ EXCEPT !.pc = "PR_HitRUnlock",
                               !.result = <<symbolPrecision[th[self].symbol]>>]
                ELSE [@ EXCEPT !.pc = "PR_MissRUnlock"]]
    /\ UNCHANGED <<cfg, balanceVars, positionsVars, symbolPrecision, historyVars>>

\* lines 294-295: RLock, then prec, ok := t.symbolPrecision[okxSymbol]
PR_RLock(self) ==
    /\ At(self, "PR_RLock")
    /\ CanRLock(precisionMutex)
    /\ precisionMutex' = RLock(precisionMutex, self)
    /\ LET okxSymbol == convertSymbol(th[self].symbol)
       IN  th' = [th EXCEPT ![self] =
                IF okxSymbol \in DOMAIN symbolPrecision
                THEN [@ EXCEPT !.pc = "PR_HitRUnlock",
                               !.result = <<symbolPrecision[okxSymbol]>>]
                ELSE [@ EXCEPT !.pc = "PR_MissRUnlock"]]
    /\ UNCHANGED <<cfg, balanceVars, positionsVars, symbolPrecision, historyVars>>

\* lines 296-297
PR_HitRUnlock(self) ==
    /\ At(self, "PR_HitRUnlock")
    /\ precisionMutex' = RUnlock(precisionMutex, self)
    /\ th' = [th EXCEPT ![self] = ReturnTo(@, Ok(th[self].result))]
    /\ UNCHANGED <<cfg, balanceVars, positionsVars, symbolPrecision, historyVars>>

\* lines 299-302 and 269-272
PR_MissRUnlock(self) ==
    /\ At(self, "PR_MissRUnlock")
    /\ precisionMutex' = RUnlock(precisionMutex, self)
    /\ th' = [th EXCEPT ![self] =
                EnterMakeRequest(
                    Enter(@, "GI_Parse", "PR_Compute"),
                    Request("GET", PathInstruments, convertSymbol(th[self].symbol), <<>>),
                    "GI_Parse")]
    /\ UNCHANGED <<cfg, balanceVars, positionsVars, symbolPrecision, historyVars>>

\* lines 303-329
PR_Compute(self) ==
    /\ At(self, "PR_Compute")
    /\ LET r == th[self].rv
       IN  th' = [th EXCEPT ![self] =
                IF r.err # NoErr
                THEN ReturnTo(@, Fail(r.err))
                ELSE [@ EXCEPT !.pc = "PR_Lock", !.result = <<Precision(r.val)>>]]
    /\ UNCHANGED <<cfg, balanceVars, positionsVars, precisionVars, historyVars>>

\* lines 332-333: Lock, then t.symbolPrecision[okxSymbol] = prec
PR_Lock(self) ==
    /\ At(self, "PR_Lock")
    /\ CanLock(precisionMutex)
    /\ precisionMutex' = Lock(precisionMutex, self)
    /\ LET okxSymbol == convertSymbol(th[self].symbol)
       IN  symbolPrecision' =
              [k \in DOMAIN symbolPrecision \cup {okxSymbol} |->
                  IF k = okxSymbol THEN th[self].result[1] ELSE symbolPrecision[k]]
    /\ th' = [th EXCEPT ![self] = [@ EXCEPT !.pc = "PR_Unlock"]]
    /\ UNCHANGED <<cfg, balanceVars, positionsVars, historyVars>>

\* lines 334-336
PR_Unlock(self) ==
    /\ At(self, "PR_Unlock")
    /\ precisionMutex' = Unlock(precisionMutex, self)
    /\ th' = [th EXCEPT ![self] = ReturnTo(@, Ok(th[self].result))]
    /\ UNCHANGED <<cfg, balanceVars, positionsVars, symbolPrecision, historyVars>>

\* a step of thread self that touches nothing but its own locals
Local(self, rec) ==
    /\ th' = [th EXCEPT ![self] = rec]
    /\ UNCHANGED <<cfg, balanceVars, positionsVars, precisionVars, historyVars>>

(***************************************************************************)
(* FormatQuantity (lines 340-383).  The result string is <<m, e>>: the     *)
(* digits of m with e decimals, as strconv.FormatFloat(x, 'f', e, 64)      *)
(* writes them.                                                            *)
(***************************************************************************)
\* lines 351-354 with three decimals for every symbol
FallbackQuantity_threeDecimals(symbol, quantity) ==
    <<RoundDiv(quantity * 1000, One), 3>>

\* lines 351-354: the default precision when the specification is not to be had
FallbackQuantity(symbol, quantity) ==
    IF ContainsSeq(symbol, <<"B", "T", "C">>) \/ ContainsSeq(symbol, <<"E", "T", "H">>)
    THEN <<RoundDiv(quantity * 100, One), 2>>
    ELSE <<RoundDiv(quantity * 1000, One), 3>>

\* lines 358-382
FormatQuantityWith(info, quantity) ==
    LET parsedMin == Fixed(ParseDecimal(info.minSz))
        minSz == IF parsedMin <= 0 THEN One ELSE parsedMin
        raised == IF quantity < minSz THEN minSz ELSE quantity
        lotSz == Fixed(ParseDecimal(info.lotSz))
        floored == (raised \div lotSz) * lotSz
        stepped == IF lotSz > 0
                   THEN IF floored < minSz THEN minSz ELSE floored
                   ELSE raised
    IN  <<stepped \div One, 0>>

\* lines 342-347 and 269-272
FQ_Start(self) ==
    /\ At(self, "FQ_Start")
    /\ Local(self,
             IF th[self].quantity <= 0
             THEN ReturnTo(th[self], Fail(<<"quantity must be above 0">>))
             ELSE EnterMakeRequest(
                      Enter(th[self], "GI_Parse", "FQ_Compute"),
                      Request("GET", PathInstruments, convertSymbol(th[self].symbol), <<>>),
                      "GI_Parse"))

\* lines 348-382
FQ_Compute(self) ==
    /\ At(self, "FQ_Compute")
    /\ Local(self,
             IF th[self].rv.err # NoErr
             THEN ReturnTo(th[self], Ok(FallbackQuantity(th[self].symbol, th[self].quantity)))
             ELSE ReturnTo(th[self], Ok(FormatQuantityWith(th[self].rv.val, th[self].quantity))))

(***************************************************************************)
(* formatPrice (lines 386-411).                                            *)
(***************************************************************************)
\* strings.TrimRight(s, "0") on the digits of a whole number: nothing is
\* left of "0" (<<>> is the empty string)
RECURSIVE TrimWhole(_)
TrimWhole(m) ==
    IF m = 0 THEN <<>>
    ELSE IF m % 10 # 0 THEN <<m, 0>>
    ELSE TrimWhole(m \div 10)

\* strings.TrimRight(strings.TrimRight(s, "0"), ".") on digits with a point:
\* the zeros are cut up to the point, then the point
RECURSIVE TrimDecimals(_)
TrimDecimals(str) ==
    IF str[2] = 0 \/ str[1] % 10 # 0 THEN str
    ELSE TrimDecimals(<<str[1] \div 10, str[2] - 1>>)

\* lines 407-408 on the digits of m with e decimals; there is a point only
\* when e > 0
TrimZeros(str) == IF str[2] > 0 THEN TrimDecimals(str) ELSE TrimWhole(str[1])

\* strconv.FormatFloat(x, 'f', prec, 64): the digits of x rounded to prec decimals
FormatFloat(x, prec) ==
    IF prec >= DecPlaces THEN <<x * Pow10(prec - DecPlaces), prec>>
    ELSE <<RoundDiv(x, Pow10(DecPlaces - prec)), prec>>

\* lines 394-403 flooring to the decimals of the price precision in every case
FloorPrice_byPrecision(prec, price) ==
    (price \div One) * One

\* lines 394-403
FloorPrice(prec, price) ==
    LET tick == Fixed(prec.TickSize)
    IN  IF tick > 0
        THEN (price \div tick) * tick
        ELSE LET multiplier == Pow10(prec.PricePrecision)
             IN  ((((price * multiplier) \div One) * One) \div multiplier)

\* lines 388-410
FP_Compute(self) ==
    /\ At(self, "FP_Compute")
    /\ LET r == th[self].rv
       IN  Local(self,
                 IF r.err # NoErr
                 THEN ReturnTo(th[self], Fail(r.err))
                 ELSE ReturnTo(th[self],
                               Ok(TrimZeros(FormatFloat(FloorPrice(r.val[1], th[self].price),
                                                        r.val[1].PricePrecision)))))

(***************************************************************************)
(* CancelStopLossOrders (lines 1092-1132) and CancelTakeProfitOrders       *)
(* (lines 1135-1175): th.algo says which of the two is running.            *)
(***************************************************************************)
\* lines 1096 and 1139
AL_Start(self) ==
    /\ At(self, "AL_Start")
    /\ Local(self, EnterMakeRequest(th[self],
                       Request("GET", PathAlgoPending, convertSymbol(th[self].symbol), <<>>),
                       "AL_Listed"))

\* lines 1114 and 1157: the orders the loop cancels
IsTriggered(px) == px # "" /\ px # "0"
ToCancel(algo, order) ==
    IF algo = "sl" THEN IsTriggered(order.slTriggerPx) ELSE IsTriggered(order.tpTriggerPx)

\* lines 1097-1110 and 1140-1153
AL_Listed(self) ==
    /\ At(self, "AL_Listed")
    /\ LET r == th[self].rv
       IN  Local(self,
                 IF r.err # NoErr
                 THEN ReturnTo(DropFrame(th[self]),
                               Fail(Wrap("get conditional orders failed", r.err)))
                 ELSE IF ~r.val.valid
                 THEN ReturnTo(DropFrame(th[self]), Fail(<<"parse order list failed">>))
                 ELSE [DropFrame(th[self]) EXCEPT
                          !.pc = "AL_CancelNext",
                          !.listed = <<r.val.items>>,
                          !.cancels = <<>>,
                          !.orders = SelectSeq(r.val.items,
                                               LAMBDA o : ToCancel(th[self].algo, o))])

\* lines 1113-1131 and 1156-1174 returning the error of a failed cancellation
AL_CancelNext_stopsOnError(self) ==
    /\ At(self, "AL_CancelNext")
    /\ Local(self,
             IF th[self].orders = <<>> \/ th[self].rv.err # NoErr
             THEN ReturnTo(DropFrame(th[self]), th[self].rv)
             ELSE EnterMakeRequest(
                      [th[self] EXCEPT !.orders = Tail(@),
                                       !.cancels = Append(@, Head(th[self].orders).algoId)],
                      Request("POST", PathCancelAlgo, <<>>,
                              <<[instId |-> convertSymbol(th[self].symbol),
                                 algoId |-> Head(th[self].orders).algoId,
                                 ordType |-> "conditional"]>>),
                      "AL_CancelNext"))

\* lines 1113-1131 and 1156-1174: a failed cancellation is logged, the loop
\* goes on; th.cancels lists the algoId of every cancellation sent
AL_CancelNext(self) ==
    /\ At(self, "AL_CancelNext")
    /\ Local(self,
             IF th[self].orders = <<>>
             THEN ReturnTo(DropFrame(th[self]), Ok(<<>>))
             ELSE EnterMakeRequest(
                      [th[self] EXCEPT !.orders = Tail(@),
                                       !.cancels = Append(@, Head(th[self].orders).algoId)],
                      Request("POST", PathCancelAlgo, <<>>,
                              <<[instId |-> convertSymbol(th[self].symbol),
                                 algoId |-> Head(th[self].orders).algoId,
                                 ordType |-> "conditional"]>>),
                      "AL_CancelNext"))

(***************************************************************************)
(* CancelAllOrders (lines 1178-1229).                                      *)
(***************************************************************************)
\* lines 1182-1186
CA_Start(self) ==
    /\ At(self, "CA_Start")
    /\ Local(self, EnterMakeRequest(th[self],
                       Request("POST", PathCancelAllAfter, <<>>,
                               <<[instId |-> convertSymbol(th[self].symbol)]>>),
                       "CA_AfterBatch"))

\* lines 1188-1190 and 1219
CA_AfterBatch(self) ==
    /\ At(self, "CA_AfterBatch")
    /\ Local(self,
             IF th[self].rv.err # NoErr
             THEN EnterMakeRequest(DropFrame(th[self]),
                      Request("GET", PathOrdersPending, convertSymbol(th[self].symbol), <<>>),
                      "CA_Listed")
             ELSE Enter([DropFrame(th[self]) EXCEPT !.algo = "sl"],
                        "AL_Start", "CA_AfterStopLoss"))

\* lines 1191-1201
CA_Listed(self) ==
    /\ At(self, "CA_Listed")
    /\ LET r == th[self].rv
       IN  Local(self,
                 IF r.err # NoErr
                 THEN ReturnTo(DropFrame(th[self]), Fail(Wrap("get order list failed", r.err)))
                 ELSE IF ~r.val.valid
                 THEN ReturnTo(DropFrame(th[self]), Fail(<<"parse order list failed">>))
                 ELSE [DropFrame(th[self]) EXCEPT !.pc = "CA_CancelNext",
                                                  !.orders = r.val.items])

\* lines 1204-1219: a failed cancellation is logged, the loop goes on
CA_CancelNext(self) ==
    /\ At(self, "CA_CancelNext")
    /\ Local(self,
             IF th[self].orders = <<>>
             THEN Enter([DropFrame(th[self]) EXCEPT !.algo = "sl"],
                        "AL_Start", "CA_AfterStopLoss")
             ELSE EnterMakeRequest(
                      [th[self] EXCEPT !.orders = Tail(@)],
                      Request("POST", PathCancelOrder, <<>>,
                              <<[instId |-> convertSymbol(th[self].symbol),
                                 ordId |-> Head(th[self].orders).ordId]>>),
                      "CA_CancelNext"))

\* lines 1219-1223: the error of CancelStopLossOrders is logged
CA_AfterStopLoss(self) ==
    /\ At(self, "CA_AfterStopLoss")
    /\ Local(self, Enter([th[self] EXCEPT !.algo = "tp"], "AL_Start", "CA_AfterTakeProfit"))

\* lines 1223-1228: the error of CancelTakeProfitOrders is logged
CA_AfterTakeProfit(self) ==
    /\ At(self, "CA_AfterTakeProfit")
    /\ Local(self, ReturnTo([th[self] EXCEPT !.algo = ""], Ok(<<>>)))

(***************************************************************************)
(* OpenLong (706-777), OpenShort (780-851), CloseLong (854-928) and        *)
(* CloseShort (931-1005).                                                  *)
(***************************************************************************)
IsOpen(op) == op \in {"OpenLong", "OpenShort"}
IsClose(op) == op \in {"CloseLong", "CloseShort"}

\* lines 732-738 used by all four operations
OrderParams_alwaysOpenLong(op, symbol, sz) ==
    [instId |-> convertSymbol(symbol), tdMode |-> "cross", side |-> "buy",
     ordType |-> "market", sz |-> sz]

\* lines 732-738, 806-812, 883-890, 960-967
OrderParams(op, symbol, sz) ==
    LET side == IF op \in {"OpenLong", "CloseShort"} THEN "buy" ELSE "sell"
    IN  IF IsOpen(op)
        THEN [instId |-> convertSymbol(symbol), tdMode |-> "cross", side |-> side,
              ordType |-> "market", sz |-> sz]
        ELSE [instId |-> convertSymbol(symbol), tdMode |-> "cross", side |-> side,
              ordType |-> "market", sz |-> sz, reduceOnly |-> TRUE]

\* lines 710-715: the error of CancelAllOrders is logged; SetLeverage reads the positions
OP_AfterCancel(self) ==
    /\ At(self, "OP_AfterCancel")
    /\ Local(self, Enter(Enter(th[self], "SL_Scan", "OP_AfterLeverage"), "GP_RLock", "SL_Scan"))

\* lines 715-720 with the error of SetLeverage logged only
OP_AfterLeverage_ignoresError(self) ==
    /\ At(self, "OP_AfterLeverage")
    /\ Local(self, Enter(th[self], "FQ_Start", "TR_AfterFormat"))

\* lines 715-720
OP_AfterLeverage(self) ==
    /\ At(self, "OP_AfterLeverage")
    /\ Local(self,
             IF th[self].rv.err # NoErr
             THEN ReturnTo(th[self], Fail(th[self].rv.err))
             ELSE Enter(th[self], "FQ_Start", "TR_AfterFormat"))

\* lines 857-859 and 934-936
CL_Start(self) ==
    /\ At(self, "CL_Start")
    /\ Local(self,
             IF th[self].quantity = 0
             THEN Enter(th[self], "GP_RLock", "CL_Positions")
             ELSE Enter(th[self], "FQ_Start", "TR_AfterFormat"))

\* lines 865 and 942 without the test of the side
RECURSIVE HeldAmount_anySide(_, _, _)
HeldAmount_anySide(positions, symbol, side) ==
    IF positions = <<>> THEN 0
    ELSE IF Head(positions).symbol = symbol
         THEN Head(positions).positionAmt * One
         ELSE HeldAmount_anySide(Tail(positions), symbol, side)

\* lines 864-869 and 941-946: the first position of the symbol on the side
RECURSIVE HeldAmount(_, _, _)
HeldAmount(positions, symbol, side) ==
    IF positions = <<>> THEN 0
    ELSE IF Head(positions).symbol = symbol /\ Head(positions).side = side
         THEN Head(positions).positionAmt * One
         ELSE HeldAmount(Tail(positions), symbol, side)

\* lines 860-877 and 937-954
CL_Positions(self) ==
    /\ At(self, "CL_Positions")
    /\ LET r == th[self].rv
           side == IF th[self].op = "CloseLong" THEN "long" ELSE "short"
           quantity == HeldAmount(r.val, th[self].symbol, side)
       IN  Local(self,
                 IF r.err # NoErr
                 THEN ReturnTo(th[self], Fail(r.err))
                 ELSE IF quantity = 0
                 THEN ReturnTo(th[self], Fail(<<"no position", side>>))
                 ELSE Enter([th[self] EXCEPT !.quantity = quantity],
                            "FQ_Start", "TR_AfterFormat"))

\* lines 720-741, 794-815, 877-893, 954-970
TR_AfterFormat(self) ==
    /\ At(self, "TR_AfterFormat")
    /\ LET r == th[self].rv
       IN  Local(self,
                 IF r.err # NoErr
                 THEN ReturnTo(th[self], Fail(r.err))
                 ELSE IF IsOpen(th[self].op) /\ r.val[1] <= 0
                 THEN ReturnTo(th[self], Fail(<<"open quantity too small">>))
                 ELSE EnterMakeRequest(th[self],
                          Request("POST", PathOrder, <<>>,
                                  <<OrderParams(th[self].op, th[self].symbol, r.val)>>),
                          "TR_AfterOrder"))

\* lines 742-776 with the positions cache dropped once the order is placed
TR_AfterOrder_dropsPositions(self) ==
    /\ At(self, "TR_AfterOrder")
    /\ th' = [th EXCEPT ![self] = ReturnTo(DropFrame(@), Ok(<<>>))]
    /\ cachedPositions' = <<>>
    /\ positionsCacheAge' = MaxAge
    /\ UNCHANGED <<cfg, balanceVars, positionsCacheMutex, precisionVars, historyVars>>

\* lines 742-776, 816-850, 894-927, 971-1004
TR_AfterOrder(self) ==
    /\ At(self, "TR_AfterOrder")
    /\ LET r == th[self].rv
       IN  Local(self,
                 IF r.err # NoErr
                 THEN ReturnTo(DropFrame(th[self]), Fail(Wrap("order failed to send", r.err)))
                 ELSE IF ~r.val.valid
                 THEN ReturnTo(DropFrame(th[self]), Fail(<<"parse order response failed">>))
                 ELSE IF Len(r.val.items) = 0
                 THEN ReturnTo(DropFrame(th[self]), Fail(<<"order response empty">>))
                 ELSE IF r.val.items[1].sCode # "0"
                 THEN ReturnTo(DropFrame(th[self]),
                               Fail(<<"order rejected", r.val.items[1].sCode>>
                                        \o r.val.items[1].sMsg))
                 ELSE ReturnTo(DropFrame(th[self]),
                               Ok([orderId |-> r.val.items[1].ordId,
                                   symbol |-> th[self].symbol,
                                   status |-> "FILLED"])))

(***************************************************************************)
(* SetStopLoss (lines 1008-1047) and SetTakeProfit (lines 1050-1089):      *)
(* th.args holds positionSide.                                             *)
(***************************************************************************)
\* lines 1023-1037 and 1065-1079: the conditional order
AlgoParams(op, symbol, positionSide, sz, px) ==
    [instId |-> convertSymbol(symbol),
     tdMode |-> "cross",
     side |-> IF positionSide = "short" THEN "buy" ELSE "sell",
     ordType |-> "conditional",
     sz |-> sz,
     trigger |-> IF op = "SetStopLoss" THEN "slTriggerPx" ELSE "tpTriggerPx",
     triggerPx |-> px,
     triggerPxType |-> "last",
     reduceOnly |-> TRUE]

\* lines 1012-1018 and 1054-1060: FormatQuantity has returned, formatPrice is called
ST_AfterQuantity(self) ==
    /\ At(self, "ST_AfterQuantity")
    /\ LET r == th[self].rv
       IN  Local(self,
                 IF r.err # NoErr
                 THEN ReturnTo(th[self], Fail(r.err))
                 ELSE Enter(Enter([th[self] EXCEPT !.quantityStr = r.val],
                                  "FP_Compute", "ST_AfterPrice"),
                            "PR_RLock", "FP_Compute"))

\* lines 1018-1039 and 1060-1081
ST_AfterPrice(self) ==
    /\ At(self, "ST_AfterPrice")
    /\ LET r == th[self].rv
       IN  Local(self,
                 IF r.err # NoErr
                 THEN ReturnTo(th[self], Fail(r.err))
                 ELSE EnterMakeRequest(th[self],
                          Request("POST", PathOrderAlgo, <<>>,
                                  <<AlgoParams(th[self].op, th[self].symbol,
                                               th[self].args[1], th[self].quantityStr,
                                               r.val)>>),
                          "ST_AfterPost"))

\* lines 1039-1046 and 1081-1088
ST_AfterPost(self) ==
    /\ At(self, "ST_AfterPost")
    /\ LET r == th[self].rv
       IN  Local(self,
                 IF r.err # NoErr
                 THEN ReturnTo(DropFrame(th[self]),
                               Fail(Wrap(IF th[self].op = "SetStopLoss"
                                         THEN "set stop loss failed"
                                         ELSE "set take profit failed", r.err)))
                 ELSE ReturnTo(DropFrame(th[self]), Ok(<<>>)))

(***************************************************************************)
(* Callers: a thread of callers that is idle invokes an operation; when    *)
(* the operation has returned (done) the caller takes the result.          *)
(***************************************************************************)
Invoke(self, op, entry, returns, symbol, leverage) ==
    /\ self \in cfg.callers
    /\ At(self, "idle")
    /\ started < cfg.budget
    /\ started' = started + 1
    /\ th' = [th EXCEPT ![self] =
                [IdleThread EXCEPT !.pc = entry, !.stack = returns, !.op = op,
                                   !.symbol = symbol, !.leverage = leverage]]
    /\ UNCHANGED <<cfg, balanceVars, positionsVars, precisionVars,
                   elapsed, calls, fetched, lastLock, lastWrite>>

\* before NewOKXTrader: there is no client and nobody can call its methods
\* (callers is empty); what the memory of the client to come holds is open
InitNew ==
    /\ cfg = Run({}, SoloCalls, Instant, "api", "basic")
    /\ cachedBalance \in {<<>>} \cup {<<NormalizeBalance(d.items[1])>> :
                                         d \in {x \in BalanceData : Len(x.items) > 0}}
    /\ balanceCacheAge \in {0, MaxAge}
    /\ balanceCacheMutex = Unlocked
    /\ cachedPositions \in {NormalizePositions(d.items) : d \in PositionsData}
    /\ positionsCacheAge \in {0, MaxAge}
    /\ positionsCacheMutex = Unlocked
    /\ symbolPrecision \in {NoPrecision}
          \cup {[k \in {BTCSWAP} |-> Precision(d.items[1])] :
                   d \in {x \in InstrumentsData(BTCSWAP) : Len(x.items) > 0}}
    /\ precisionMutex = Unlocked
    /\ th = [t \in Threads |-> IdleThread]
    /\ started = 0
    /\ elapsed = 0
    /\ calls = [balance |-> 0, positions |-> 0]
    /\ fetched = [balance |-> 0, positions |-> 0]
    /\ lastLock = [balance |-> NoThread, positions |-> NoThread]
    /\ lastWrite = [balance |-> <<>>, positions |-> <<>>]

\* a client whose balance and positions were read by an earlier GetBalance
\* and GetPositions, both a moment ago or both more than a TTL ago
InitFrame ==
    /\ cfg = Run({1}, MaxCalls, Instant, "api", "basic")
    /\ \E age \in {0, MaxAge} :
          LET balance == <<NormalizeBalance(
                             [totalEq |-> Num(100),
                              details |-> << [availEq |-> Num(60), eq |-> Num(100),
                                              bal |-> Num(90), availBal |-> Num(55),
                                              upl |-> Num(10)] >>])>>
              positions == NormalizePositions(
                             << RawPosition(BTCSWAP, Num(2), Num(10)) >>)
          IN  /\ cachedBalance = balance
              /\ balanceCacheAge = age
              /\ cachedPositions = positions
              /\ positionsCacheAge = age
              /\ lastWrite = [balance |-> <<[by |-> 1, payload |-> balance, age |-> age]>>,
                              positions |-> <<[by |-> 1, payload |-> positions, age |-> age]>>]
    /\ balanceCacheMutex = Unlocked
    /\ positionsCacheMutex = Unlocked
    /\ symbolPrecision = NoPrecision
    /\ precisionMutex = Unlocked
    /\ th = [t \in Threads |-> IdleThread]
    /\ started = 0
    /\ elapsed = 0
    /\ calls = [balance |-> 1, positions |-> 1]
    /\ fetched = [balance |-> 1, positions |-> 1]
    /\ lastLock = [balance |-> 1, positions |-> 1]

\* line 91 with the key alone tested
MissingCredential_keyOnly(apiKey, secretKey, passphrase) == apiKey = ""

\* line 91
MissingCredential(apiKey, secretKey, passphrase) ==
    apiKey = "" \/ secretKey = "" \/ passphrase = ""

\* lines 90-118: the constructor; its caller is the one that holds the client
Call_NewOKXTrader(self) ==
    /\ cfg.callers = {}
    /\ At(self, "idle")
    /\ \E apiKey \in {"", "key"}, secretKey \in {"", "secret"}, passphrase \in {"", "pass"} :
          LET rec == [IdleThread EXCEPT !.pc = "done", !.op = "NewOKXTrader",
                                        !.args = <<apiKey, secretKey, passphrase>>]
          IN  IF MissingCredential(apiKey, secretKey, passphrase)
              THEN /\ th' = [th EXCEPT ![self] = [rec EXCEPT !.rv = Fail(<<ErrCredentials>>)]]
                   /\ UNCHANGED <<cfg, balanceVars, positionsVars, precisionVars>>
              ELSE /\ th' = [th EXCEPT ![self] = rec]
                   /\ cfg' = [cfg EXCEPT !.callers = {self}]
                   /\ cachedBalance' = <<>>
                   /\ balanceCacheAge' = MaxAge
                   /\ balanceCacheMutex' = Unlocked
                   /\ cachedPositions' = <<>>
                   /\ positionsCacheAge' = MaxAge
                   /\ positionsCacheMutex' = Unlocked
                   /\ symbolPrecision' = NoPrecision
                   /\ precisionMutex' = Unlocked
    /\ UNCHANGED historyVars

Call_GetBalance(self) ==
    Invoke(self, "GetBalance", "GB_RLock", <<"done">>, <<>>, 0)

Call_GetPositions(self) ==
    Invoke(self, "GetPositions", "GP_RLock", <<"done">>, <<>>, 0)

\* lines 620-624: SetLeverage starts by reading the positions
Call_SetLeverage(self) ==
    \E symbol \in Symbols, leverage \in Leverages :
        Invoke(self, "SetLeverage", "GP_RLock", <<"SL_Scan", "done">>, symbol, leverage)

\* the symbols getPrecision is asked about: in the "lots" market the
\* instrument IDs of the exchange as well
PrecisionSymbols ==
    IF cfg.market = "lots" THEN Symbols \cup {BTCSWAP, ETHSWAP} ELSE Symbols

\* lines 291-292
Call_getPrecision(self) ==
    \E symbol \in PrecisionSymbols :
        Invoke(self, "getPrecision", "PR_RLock", <<"done">>, symbol, 0)

\* an invocation that carries a quantity or a price
InvokeSized(self, op, entry, returns, symbol, leverage, quantity, price) ==
    /\ self \in cfg.callers
    /\ At(self, "idle")
    /\ started < cfg.budget
    /\ started' = started + 1
    /\ th' = [th EXCEPT ![self] =
                [IdleThread EXCEPT !.pc = entry, !.stack = returns, !.op = op,
                                   !.symbol = symbol, !.leverage = leverage,
                                   !.quantity = quantity, !.given = quantity,
                                   !.price = price]]
    /\ UNCHANGED <<cfg, balanceVars, positionsVars, precisionVars,
                   elapsed, calls, fetched, lastLock, lastWrite>>

\* the quantities callers pass: none, half a contract, two contracts
Quantities == {0, One \div 2, 2 * One}

\* lines 706-715 without the cleanup: the open paths start with SetLeverage
Call_Open_skipsCleanup(self) ==
    \E op \in {"OpenLong", "OpenShort"}, symbol \in Symbols,
       leverage \in Leverages, quantity \in Quantities :
        InvokeSized(self, op, "GP_RLock", <<"SL_Scan", "OP_AfterLeverage", "done">>,
                    symbol, leverage, quantity, 0)

\* lines 706-710 and 780-784: the open paths start with CancelAllOrders
Call_Open(self) ==
    \E op \in {"OpenLong", "OpenShort"}, symbol \in Symbols,
       leverage \in Leverages, quantity \in Quantities :
        InvokeSized(self, op, "CA_Start", <<"OP_AfterCancel", "done">>,
                    symbol, leverage, quantity, 0)

\* in the "sizing" market: a symbol that holds neither BTC nor ETH as well,
\* and quantities below zero, below a hundredth, fractional and whole
OrderSymbols == IF cfg.market = "sizing" THEN Symbols \cup {SOLUSDT} ELSE Symbols
OrderQuantities ==
    IF cfg.market = "sizing" THEN {0 - One, One \div 250, One \div 2, 2 * One}
    ELSE Quantities

\* lines 854-857 and 931-934
Call_Close(self) ==
    \E op \in {"CloseLong", "CloseShort"}, symbol \in OrderSymbols,
       quantity \in OrderQuantities :
        InvokeSized(self, op, "CL_Start", <<"done">>, symbol, 0, quantity, 0)

\* the quantities and prices formatted: the eighths up to FormatSteps / 8,
\* and two whole numbers that end in zeros
Amounts == {k * (One \div 8) : k \in 0..FormatSteps} \cup {100 * One, 120 * One}

\* lines 340-347
Call_FormatQuantity(self) ==
    \E symbol \in OrderSymbols, quantity \in Amounts :
        InvokeSized(self, "FormatQuantity", "FQ_Start", <<"done">>, symbol, 0, quantity, 0)

\* lines 386-387: formatPrice starts with getPrecision
Call_formatPrice(self) ==
    \E symbol \in Symbols, price \in Amounts :
        InvokeSized(self, "formatPrice", "PR_RLock", <<"FP_Compute", "done">>,
                    symbol, 0, 0, price)

\* positionSide of SetStopLoss and SetTakeProfit (lines 1008 and 1050) is a
\* string of the caller's: the sides as the normalized positions name them
\* (line 560) and as the sibling adapter's callers name them
PositionSides == {"long", "short", "LONG", "SHORT"}

\* lines 1008-1012 and 1050-1054: both start with FormatQuantity
Call_SetStop(self) ==
    /\ self \in cfg.callers
    /\ At(self, "idle")
    /\ started < cfg.budget
    /\ started' = started + 1
    /\ \E op \in {"SetStopLoss", "SetTakeProfit"}, symbol \in Symbols,
          positionSide \in PositionSides, quantity \in {One \div 2, 2 * One} :
          th' = [th EXCEPT ![self] =
                   [IdleThread EXCEPT !.pc = "FQ_Start",
                                      !.stack = <<"ST_AfterQuantity", "done">>,
                                      !.op = op, !.symbol = symbol,
                                      !.args = <<positionSide>>,
                                      !.quantity = quantity, !.given = quantity,
                                      !.price = (5 * One) \div 4]]
    /\ UNCHANGED <<cfg, balanceVars, positionsVars, precisionVars,
                   elapsed, calls, fetched, lastLock, lastWrite>>

\* the symbols converted: every word of up to SymbolLen letters (a dash
\* among them), alone or in front of USDT or USD
SymbolInputs ==
    LET letters == {"B", "T", "U", "S", "D", "-"}
        words == UNION {[1..k -> letters] : k \in 0..SymbolLen}
    IN  {w \o suffix : w \in words, suffix \in {<<>>, USDT, USD}}

\* lines 121-139 and 142-148: a symbol is converted, and converted back
Call_convertSymbol(self) ==
    \E symbol \in SymbolInputs :
        Invoke(self, "convertSymbol", "CS_Convert", <<"done">>, symbol, 0)

CS_Convert(self) ==
    /\ At(self, "CS_Convert")
    /\ Local(self, [th[self] EXCEPT !.pc = "CS_Reverse",
                                    !.result = convertSymbol(th[self].symbol)])

CS_Reverse(self) ==
    /\ At(self, "CS_Reverse")
    /\ Local(self, ReturnTo(th[self], Ok(reverseSymbol(th[self].result))))

\* lines 121-139: a symbol is converted, and the result converted again
\* (what getPrecision and getInstrumentInfo do to one symbol)
Call_convertTwice(self) ==
    \E symbol \in SymbolInputs :
        Invoke(self, "convertTwice", "CS_First", <<"done">>, symbol, 0)

CS_First(self) ==
    /\ At(self, "CS_First")
    /\ Local(self, [th[self] EXCEPT !.pc = "CS_Second",
                                    !.result = convertSymbol(th[self].symbol)])

CS_Second(self) ==
    /\ At(self, "CS_Second")
    /\ Local(self, ReturnTo(th[self], Ok(convertSymbol(th[self].result))))

\* lines 1178-1186
Call_CancelAllOrders(self) ==
    \E symbol \in Symbols :
        Invoke(self, "CancelAllOrders", "CA_Start", <<"done">>, symbol, 0)

\* lines 1092 and 1135: CancelStopLossOrders or CancelTakeProfitOrders called
\* by itself
Call_CancelStops(self) ==
    /\ self \in cfg.callers
    /\ At(self, "idle")
    /\ started < cfg.budget
    /\ started' = started + 1
    /\ \E algo \in {"sl", "tp"}, symbol \in Symbols :
          th' = [th EXCEPT ![self] =
                   [IdleThread EXCEPT !.pc = "AL_Start", !.stack = <<"done">>,
                                      !.op = IF algo = "sl" THEN "CancelStopLossOrders"
                                             ELSE "CancelTakeProfitOrders",
                                      !.algo = algo, !.symbol = symbol]]
    /\ UNCHANGED <<cfg, balanceVars, positionsVars, precisionVars,
                   elapsed, calls, fetched, lastLock, lastWrite>>

Finish(self) ==
    /\ At(self, "done")
    /\ th' = [th EXCEPT ![self] = IdleThread]
    /\ UNCHANGED <<cfg, balanceVars, positionsVars, precisionVars, historyVars>>

\* where a thread waits for something that takes time: its caller, the
\* exchange, a sleep.  The steps in between take no time on this clock.
Waiting(self) == th[self].pc \in {"idle", "MR_InFlight", "MR_Sleep", "SL_Cooldown"}

\* one second passes: the cache entries age, the sleepers sleep on
Older(age) == IF age < MaxAge THEN age + 1 ELSE MaxAge

Tick ==
    /\ \A t \in Threads : Waiting(t)
    /\ cfg.horizon < 0 \/ elapsed < cfg.horizon
    /\ cfg.horizon = Instant => \E t \in Threads : th[t].sleep > 0
    /\ elapsed' = IF cfg.horizon < 0 THEN elapsed ELSE elapsed + 1
    /\ balanceCacheAge' = Older(balanceCacheAge)
    /\ positionsCacheAge' = Older(positionsCacheAge)
    /\ th' = [t \in Threads |->
                [th[t] EXCEPT !.sleep = IF @ > 0 THEN @ - 1 ELSE 0,
                              !.cooled = IF th[t].pc = "SL_Cooldown" /\ th[t].sleep > 0
                                         THEN @ + 1 ELSE @]]
    /\ lastWrite' = [c \in DOMAIN lastWrite |->
                       IF lastWrite[c] = <<>> THEN <<>>
                       ELSE <<[lastWrite[c][1] EXCEPT !.age = Older(@)]>>]
    /\ UNCHANGED <<cfg, cachedBalance, balanceCacheMutex, cachedPositions,
                   positionsCacheMutex, precisionVars, started, calls, fetched, lastLock>>

Next ==
    \/ Tick
    \/ \E self \in Threads :
          \/ Call_GetBalance(self)
          \/ Call_GetPositions(self)
          \/ Call_SetLeverage(self)
          \/ Call_getPrecision(self)
          \/ Finish(self)
          \/ MR_Reply(self)
          \/ MR_Wake(self)
          \/ GB_RLock(self)
          \/ GB_HitRUnlock(self)
          \/ GB_HitReturn(self)
          \/ GB_MissRUnlock(self)
          \/ GB_Parse(self)
          \/ GB_Lock(self)
          \/ GB_Unlock(self)
          \/ GP_RLock(self)
          \/ GP_HitRUnlock(self)
          \/ GP_HitReturn(self)
          \/ GP_MissRUnlock(self)
          \/ GP_Parse(self)
          \/ GP_Lock(self)
          \/ GP_Unlock(self)
          \/ SL_Scan(self)
          \/ SL_AfterPost(self)
          \/ SL_Wake(self)
          \/ GI_Parse(self)
          \/ PR_RLock(self)
          \/ PR_HitRUnlock(self)
          \/ PR_MissRUnlock(self)
          \/ PR_Compute(self)
          \/ PR_Lock(self)
          \/ PR_Unlock(self)

\* the two TTL caches alone: GetBalance and GetPositions
NextCache ==
    \/ Tick
    \/ \E self \in Threads :
          \/ Call_GetBalance(self)
          \/ Call_GetPositions(self)
          \/ Finish(self)
          \/ MR_Reply(self)
          \/ MR_Wake(self)
          \/ GB_RLock(self)
          \/ GB_HitRUnlock(self)
          \/ GB_HitReturn(self)
          \/ GB_MissRUnlock(self)
          \/ GB_Parse(self)
          \/ GB_Lock(self)
          \/ GB_Unlock(self)
          \/ GP_RLock(self)
          \/ GP_HitRUnlock(self)
          \/ GP_HitReturn(self)
          \/ GP_MissRUnlock(self)
          \/ GP_Parse(self)
          \/ GP_Lock(self)
          \/ GP_Unlock(self)

\* SetLeverage alone, with the positions read it starts with
NextLeverage ==
    \/ Tick
    \/ \E self \in Threads :
          \/ Call_SetLeverage(self)
          \/ Finish(self)
          \/ MR_Reply(self)
          \/ MR_Wake(self)
          \/ GP_RLock(self)
          \/ GP_HitRUnlock(self)
          \/ GP_HitReturn(self)
          \/ GP_MissRUnlock(self)
          \/ GP_Parse(self)
          \/ GP_Lock(self)
          \/ GP_Unlock(self)
          \/ SL_Scan(self)
          \/ SL_AfterPost(self)
          \/ SL_Wake(self)

\* the order operations with everything they call
NextTrade ==
    \/ Tick
    \/ \E self \in Threads :
          \/ Call_Open(self)
          \/ Call_Close(self)
          \/ Call_CancelAllOrders(self)
          \/ Finish(self)
          \/ MR_Reply(self)
          \/ GP_RLock(self)
          \/ GP_MissRUnlock(self)
          \/ GP_Parse(self)
          \/ GP_Lock(self)
          \/ GP_Unlock(self)
          \/ SL_Scan(self)
          \/ SL_AfterPost(self)
          \/ SL_Wake(self)
          \/ GI_Parse(self)
          \/ FQ_Start(self)
          \/ FQ_Compute(self)
          \/ AL_Start(self)
          \/ AL_Listed(self)
          \/ AL_CancelNext(self)
          \/ CA_Start(self)
          \/ CA_AfterBatch(self)
          \/ CA_Listed(self)
          \/ CA_CancelNext(self)
          \/ CA_AfterStopLoss(self)
          \/ CA_AfterTakeProfit(self)
          \/ OP_AfterCancel(self)
          \/ OP_AfterLeverage(self)
          \/ CL_Start(self)
          \/ CL_Positions(self)
          \/ TR_AfterFormat(self)
          \/ TR_AfterOrder(self)

\* the two formatting functions with the fetch of the instrument
NextFormat ==
    \E self \in Threads :
        \/ Call_FormatQuantity(self)
        \/ Call_formatPrice(self)
        \/ Finish(self)
        \/ MR_Reply(self)
        \/ GI_Parse(self)
        \/ FQ_Start(self)
        \/ FQ_Compute(self)
        \/ PR_RLock(self)
        \/ PR_MissRUnlock(self)
        \/ PR_Compute(self)
        \/ PR_Lock(self)
        \/ PR_Unlock(self)
        \/ FP_Compute(self)

\* the two symbol conversions
NextSymbols ==
    \E self \in Threads :
        \/ Call_convertSymbol(self)
        \/ CS_Convert(self)
        \/ CS_Reverse(self)
        \/ Call_convertTwice(self)
        \/ CS_First(self)
        \/ CS_Second(self)
        \/ Finish(self)

\* one read of the balance and of the positions through an empty cache
NextNormalize ==
    \E self \in Threads :
        \/ Call_GetBalance(self)
        \/ Call_GetPositions(self)
        \/ Finish(self)
        \/ MR_Reply(self)
        \/ GB_RLock(self)
        \/ GB_MissRUnlock(self)
        \/ GB_Parse(self)
        \/ GB_Lock(self)
        \/ GB_Unlock(self)
        \/ GP_RLock(self)
        \/ GP_MissRUnlock(self)
        \/ GP_Parse(self)
        \/ GP_Lock(self)
        \/ GP_Unlock(self)

\* getPrecision with the fetch of the instrument, and the clock
NextPrecision ==
    \/ Tick
    \/ \E self \in Threads :
          \/ Call_getPrecision(self)
          \/ Finish(self)
          \/ MR_Reply(self)
          \/ GI_Parse(self)
          \/ PR_RLock(self)
          \/ PR_HitRUnlock(self)
          \/ PR_MissRUnlock(self)
          \/ PR_Compute(self)
          \/ PR_Lock(self)
          \/ PR_Unlock(self)

\* the constructor, then the three cached reads on the new client
NextNew ==
    \E self \in Threads :
        \/ Call_NewOKXTrader(self)
        \/ Call_GetBalance(self)
        \/ Call_GetPositions(self)
        \/ Call_getPrecision(self)
        \/ Finish(self)
        \/ MR_Reply(self)
        \/ GB_RLock(self)
        \/ GB_MissRUnlock(self)
        \/ GB_Parse(self)
        \/ GB_Lock(self)
        \/ GB_Unlock(self)
        \/ GP_RLock(self)
        \/ GP_MissRUnlock(self)
        \/ GP_Parse(self)
        \/ GP_Lock(self)
        \/ GP_Unlock(self)
        \/ GI_Parse(self)
        \/ PR_RLock(self)
        \/ PR_MissRUnlock(self)
        \/ PR_Compute(self)
        \/ PR_Lock(self)
        \/ PR_Unlock(self)

\* the operations that size an order, without the reading of positions
\* the steps of a thread inside an operation, the answer to its HTTP request
\* included
Proceed(self) ==
    \/ Finish(self)
    \/ MR_Reply(self)
    \/ GB_RLock(self)
    \/ GB_HitRUnlock(self)
    \/ GB_HitReturn(self)
    \/ GB_MissRUnlock(self)
    \/ GB_Parse(self)
    \/ GB_Lock(self)
    \/ GB_Unlock(self)
    \/ GP_RLock(self)
    \/ GP_HitRUnlock(self)
    \/ GP_HitReturn(self)
    \/ GP_MissRUnlock(self)
    \/ GP_Parse(self)
    \/ GP_Lock(self)
    \/ GP_Unlock(self)
    \/ GI_Parse(self)
    \/ PR_RLock(self)
    \/ PR_HitRUnlock(self)
    \/ PR_MissRUnlock(self)
    \/ PR_Compute(self)
    \/ PR_Lock(self)
    \/ PR_Unlock(self)

NextLive ==
    \E self \in Threads :
        \/ Call_GetBalance(self)
        \/ Call_GetPositions(self)
        \/ Call_getPrecision(self)
        \/ Proceed(self)

NextPair ==
    \/ Tick
    \/ \E self \in Threads :
          \/ Call_GetBalance(self)
          \/ Call_GetPositions(self)
          \/ Finish(self)
          \/ MR_Reply(self)
          \/ GB_RLock(self)
          \/ GB_HitRUnlock(self)
          \/ GB_HitReturn(self)
          \/ GB_MissRUnlock(self)
          \/ GB_Parse(self)
          \/ GB_Acquire(self)
          \/ GB_StorePayload(self)
          \/ GB_StoreTime(self)
          \/ GB_Unlock(self)
          \/ GP_RLock(self)
          \/ GP_HitRUnlock(self)
          \/ GP_HitReturn(self)
          \/ GP_MissRUnlock(self)
          \/ GP_Parse(self)
          \/ GP_Acquire(self)
          \/ GP_StorePayload(self)
          \/ GP_StoreTime(self)
          \/ GP_Unlock(self)

NextAlgo ==
    \E self \in Threads :
        \/ Call_CancelStops(self)
        \/ Finish(self)
        \/ MR_Reply(self)
        \/ AL_Start(self)
        \/ AL_Listed(self)
        \/ AL_CancelNext(self)

NextSizing ==
    \E self \in Threads :
        \/ Call_Close(self)
        \/ Call_FormatQuantity(self)
        \/ Call_SetStop(self)
        \/ Finish(self)
        \/ MR_Reply(self)
        \/ GI_Parse(self)
        \/ FQ_Start(self)
        \/ FQ_Compute(self)
        \/ PR_RLock(self)
        \/ PR_MissRUnlock(self)
        \/ PR_Compute(self)
        \/ PR_Lock(self)
        \/ PR_Unlock(self)
        \/ FP_Compute(self)
        \/ CL_Start(self)
        \/ TR_AfterFormat(self)
        \/ TR_AfterOrder(self)
        \/ ST_AfterQuantity(self)
        \/ ST_AfterPrice(self)
        \/ ST_AfterPost(self)

\* a trading operation, and the readings of the two caches that follow it
NextFrame ==
    \/ Tick
    \/ \E self \in Threads :
          \/ started = 0 /\ Call_Open(self)
          \/ started = 0 /\ Call_Close(self)
          \/ started = 0 /\ Call_SetLeverage(self)
          \/ started = 0 /\ Call_SetStop(self)
          \/ started = 0 /\ Call_CancelAllOrders(self)
          \/ started > 0 /\ Call_GetBalance(self)
          \/ started > 0 /\ Call_GetPositions(self)
          \/ Finish(self)
          \/ MR_Reply(self)
          \/ GB_RLock(self)
          \/ GB_HitRUnlock(self)
          \/ GB_HitReturn(self)
          \/ GB_MissRUnlock(self)
          \/ GB_Parse(self)
          \/ GB_Lock(self)
          \/ GB_Unlock(self)
          \/ GP_RLock(self)
          \/ GP_HitRUnlock(self)
          \/ GP_HitReturn(self)
          \/ GP_MissRUnlock(self)
          \/ GP_Parse(self)
          \/ GP_Lock(self)
          \/ GP_Unlock(self)
          \/ SL_Scan(self)
          \/ SL_AfterPost(self)
          \/ SL_Wake(self)
          \/ GI_Parse(self)
          \/ FQ_Start(self)
          \/ FQ_Compute(self)
          \/ PR_RLock(self)
          \/ PR_MissRUnlock(self)
          \/ PR_Compute(self)
          \/ PR_Lock(self)
          \/ PR_Unlock(self)
          \/ FP_Compute(self)
          \/ AL_Start(self)
          \/ AL_Listed(self)
          \/ AL_CancelNext(self)
          \/ CA_Start(self)
          \/ CA_AfterBatch(self)
          \/ CA_Listed(self)
          \/ CA_CancelNext(self)
          \/ CA_AfterStopLoss(self)
          \/ CA_AfterTakeProfit(self)
          \/ OP_AfterCancel(self)
          \/ OP_AfterLeverage(self)
          \/ CL_Start(self)
          \/ CL_Positions(self)
          \/ TR_AfterFormat(self)
          \/ TR_AfterOrder(self)
          \/ ST_AfterQuantity(self)
          \/ ST_AfterPrice(self)
          \/ ST_AfterPost(self)

\* the close operations with their requests: GETs with and without a
\* query, a POST with a body
NextSign ==
    \/ Tick
    \/ \E self \in Threads :
          \/ Call_Close(self)
          \/ Finish(self)
          \/ MR_Reply(self)
          \/ MR_Wake(self)
          \/ GP_RLock(self)
          \/ GP_MissRUnlock(self)
          \/ GP_Parse(self)
          \/ GP_Lock(self)
          \/ GP_Unlock(self)
          \/ GI_Parse(self)
          \/ FQ_Start(self)
          \/ FQ_Compute(self)
          \/ CL_Start(self)
          \/ CL_Positions(self)
          \/ TR_AfterFormat(self)
          \/ TR_AfterOrder(self)

Spec == Init /\ [][Next]_vars

SpecSign == InitSign /\ [][NextSign]_vars

SpecFrame == InitFrame /\ [][NextFrame]_vars

SpecSizing == InitSizing /\ [][NextSizing]_vars

SpecNew == InitNew /\ [][NextNew]_vars

SpecPrecision == InitPrecision /\ [][NextPrecision]_vars

SpecNormalize == InitNormalize /\ [][NextNormalize]_vars

SpecSymbols == InitSymbols /\ [][NextSymbols]_vars

SpecFormat == InitFormat /\ [][NextFormat]_vars
SpecAlgo == InitAlgo /\ [][NextAlgo]_vars

SpecTrade == InitTrade /\ [][NextTrade]_vars

SpecLeverage == InitLeverage /\ [][NextLeverage]_vars

SpecTTL == InitTTL /\ [][NextCache]_vars
SpecStale == InitStale /\ [][NextCache]_vars
SpecPair == InitPair /\ [][NextPair]_vars

\* every goroutine that can take a step is scheduled in the end, and every
\* HTTP call returns
SpecLive == InitLive /\ [][NextLive]_vars /\ \A t \in Threads : WF_vars(Proceed(t))

SpecShared == InitShared /\ [][NextCache]_vars

(***************************************************************************)
(* Properties.  An "HTTP request" of an operation is one makeRequest call  *)
(* (th[t].fetches counts them per operation, fetched per cache); the       *)
(* round trips of one makeRequest call are its attempts (th[t].attempt).   *)
(***************************************************************************)
\* the operation op of thread t has returned to its caller
Returned(t, op) == th[t].pc = "done" /\ th[t].op = op

\* what the call of thread t saw when it tested its cache (lines 417, 498)
Seen(t) == th[t].chk[1]

\* makeRequest has just returned to the function that called it
AfterMakeRequest(t) == th[t].pc \in {"GB_Parse", "GP_Parse", "SL_AfterPost", "GI_Parse"}

\* thread t is inside makeRequest or has just left it
InMakeRequest(t) == th[t].attempt >= 1

\* the three substrings of lines 206-208
RetryWords == {"timeout", "connection reset", "EOF"}

\* a transport error whose text holds one of the three substrings
RetryableOutcome(r) ==
    /\ r.transportErr # NoErr
    /\ \E w \in RetryWords : w \in Range(r.transportErr)

\* an envelope with code "0" on status 200
ValidEnvelope(r) ==
    /\ r.transportErr = NoErr
    /\ ~r.readErr
    /\ r.status = StatusOK
    /\ r.body.json
    /\ r.body.code = "0"

\* a non-zero envelope code, a status other than 200, a body that is not
\* JSON, or a transport error with none of the three substrings
NonRetryableOutcome(r) ==
    /\ r # NoReply
    /\ ~r.readErr
    /\ ~RetryableOutcome(r)
    /\ ~ValidEnvelope(r)

\* the fetch of thread t's operation got a well-formed answer
FetchSucceeded(t) ==
    /\ ValidEnvelope(th[t].reply)
    /\ th[t].reply.body.data.valid
    /\ th[t].op = "GetBalance" =>
          /\ Len(th[t].reply.body.data.items) > 0
          /\ Len(th[t].reply.body.data.items[1].details) > 0

\* C1: a GetBalance call made less than 15 s after a successful fetch filled
\* the balance cache issues no HTTP request and returns the cached payload;
\* two successive calls within the TTL issue one request in total.
C1_BalanceHitIssuesNoRequest ==
    \A t \in Threads :
        (Returned(t, "GetBalance") /\ Seen(t).stored /\ Seen(t).age < cacheDuration)
            => /\ th[t].fetches = 0
               /\ th[t].sends = 0
               /\ th[t].rv = Ok(cachedBalance)
               /\ cachedBalance = lastWrite.balance[1].payload
               /\ calls.balance = 2 => fetched.balance = 1

\* C1 happens: the second of two GetBalance calls, 14 s after the fetch
C1_Witness ==
    \E t \in Threads :
        /\ Returned(t, "GetBalance")
        /\ Seen(t).stored
        /\ Seen(t).age = cacheDuration - 1
        /\ th[t].fetches = 0
        /\ th[t].rv.err = NoErr
        /\ calls.balance = 2
        /\ fetched.balance = 1

\* C2 (as stated): a GetPositions call made less than 15 s after a successful
\* fetch stored its result issues no HTTP request, whatever was fetched: an
\* empty position list is served from the cache like any other.
C2_AnyPositionsServedFromCache ==
    \A t \in Threads :
        (Returned(t, "GetPositions") /\ Seen(t).stored /\ Seen(t).age < cacheDuration)
            => /\ th[t].fetches = 0
               /\ th[t].rv.err = NoErr

\* C3: a call is a cache hit exactly when it finds a payload whose age is
\* strictly below cacheDuration; a call that finds the payload at or past
\* expiry issues exactly one request and, when that fetch delivers, installs
\* the new payload with age 0.
C3_HitIffPresentAndYoung ==
    \A t \in Threads :
        (th[t].op \in {"GetBalance", "GetPositions"} /\ th[t].chk # NoCheck) =>
            LET fresh == Seen(t).present /\ Seen(t).age < cacheDuration
            IN  /\ th[t].pc \in {"GB_HitRUnlock", "GB_HitReturn",
                                 "GP_HitRUnlock", "GP_HitReturn"} => fresh
                /\ th[t].pc \in {"GB_MissRUnlock", "GP_MissRUnlock", "MR_InFlight",
                                 "MR_Sleep", "GB_Parse", "GP_Parse", "GB_Lock",
                                 "GP_Lock", "GB_Unlock", "GP_Unlock"} => ~fresh
                /\ th[t].pc = "done" =>
                      /\ (th[t].fetches = 0) <=> fresh
                      /\ ~fresh => th[t].fetches = 1
                      /\ (~fresh /\ th[t].rv.err = NoErr /\ th[t].op = "GetBalance") =>
                            /\ cachedBalance = th[t].rv.val
                            /\ balanceCacheAge = 0
                      /\ (~fresh /\ th[t].rv.err = NoErr /\ th[t].op = "GetPositions") =>
                            /\ cachedPositions = th[t].rv.val
                            /\ positionsCacheAge = 0

\* C3 happens: a call finds the payload exactly cacheDuration old and refetches
C3_Witness ==
    \E t \in Threads :
        /\ Returned(t, "GetBalance")
        /\ Seen(t).present
        /\ Seen(t).age = cacheDuration
        /\ th[t].fetches = 1
        /\ th[t].rv.err = NoErr
        /\ cachedBalance = th[t].rv.val
        /\ balanceCacheAge = 0

\* the cache entry is what the last thread to take the write lock wrote
LastWriterWins(payload, age, mutex, c) ==
    (mutex.writer = NoThread /\ lastLock[c] # NoThread) =>
        /\ lastWrite[c][1].by = lastLock[c]
        /\ payload = lastWrite[c][1].payload
        /\ age = lastWrite[c][1].age

\* C4: N concurrent calls on an empty or expired cache issue between 1 and N
\* requests; each returns without error when its fetch succeeds; afterwards
\* the cache holds the payload and time written by the last thread to take
\* the write lock.
C4_ConcurrentMisses ==
    /\ \A c \in {"balance", "positions"} :
          /\ fetched[c] <= calls[c]
          /\ calls[c] <= started
    /\ \A t \in Threads :
          /\ Returned(t, "GetBalance") => fetched.balance >= 1
          /\ Returned(t, "GetPositions") => fetched.positions >= 1
          /\ (th[t].pc = "done" /\ th[t].fetches = 1 /\ FetchSucceeded(t))
                => th[t].rv.err = NoErr
    /\ LastWriterWins(cachedBalance, balanceCacheAge, balanceCacheMutex, "balance")
    /\ LastWriterWins(cachedPositions, positionsCacheAge, positionsCacheMutex, "positions")

\* C4 happens: two threads both found the cache never filled, both fetched,
\* they got different payloads and the second writer's is the one cached
C4_Witness ==
    \E t1, t2 \in Threads :
        /\ t1 # t2
        /\ Returned(t1, "GetPositions")
        /\ Returned(t2, "GetPositions")
        /\ ~Seen(t1).stored
        /\ ~Seen(t2).stored
        /\ th[t1].fetches = 1
        /\ th[t2].fetches = 1
        /\ fetched.positions = 2
        /\ th[t1].rv.err = NoErr
        /\ th[t2].rv.err = NoErr
        /\ th[t1].rv.val # th[t2].rv.val
        /\ lastLock.positions = t2
        /\ cachedPositions = th[t2].rv.val

\* C5: a thread whose HTTP request is in flight, or that sleeps in the retry
\* back-off or in the leverage cooldown, holds none of the three mutexes.
C5_NoLockAcrossIO ==
    \A t \in Threads :
        th[t].pc \in {"MR_InFlight", "MR_Sleep", "SL_Cooldown"} =>
            /\ ~Holds(balanceCacheMutex, t)
            /\ ~Holds(positionsCacheMutex, t)
            /\ ~Holds(precisionMutex, t)

\* C5 happens: one thread's request is in flight while another thread holds
\* a write lock
C5_Witness ==
    \E t1, t2 \in Threads :
        /\ th[t1].pc = "MR_InFlight"
        /\ positionsCacheMutex.writer = t2
        /\ t1 # t2

\* the cache whose fields the step at a label reads, and the one it writes
ReadsAt(label) ==
    IF label \in {"GB_RLock", "GB_HitReturn"} THEN {"balance"}
    ELSE IF label \in {"GP_RLock", "GP_HitReturn"} THEN {"positions"}
    ELSE IF label = "PR_RLock" THEN {"precision"}
    ELSE {}

WritesAt(label) ==
    IF label = "GB_Lock" THEN {"balance"}
    ELSE IF label = "GP_Lock" THEN {"positions"}
    ELSE IF label = "PR_Lock" THEN {"precision"}
    ELSE {}

MutexOf(c) ==
    IF c = "balance" THEN balanceCacheMutex
    ELSE IF c = "positions" THEN positionsCacheMutex
    ELSE precisionMutex

\* C6 (as stated): every step that reads a cache field is taken by a thread
\* holding that cache's mutex in shared mode, every step that writes one by
\* the thread holding it in exclusive mode; so the payload a cache hit
\* returns is read while the read lock is still held.
C6_CacheAccessUnderLock ==
    [][\A t \in Threads :
          th'[t].pc # th[t].pc =>
             /\ \A c \in ReadsAt(th[t].pc) :
                   t \in MutexOf(c).readers \/ t \in MutexOf(c)'.readers
             /\ \A c \in WritesAt(th[t].pc) : MutexOf(c)'.writer = t]_vars

\* C7: makeRequest makes at most maxRetries attempts, and another attempt
\* (or the sleep before it) follows only an attempt that ended in a transport
\* error whose text holds "timeout", "connection reset" or "EOF".
C7_BoundedRetry ==
    \A t \in Threads :
        /\ th[t].attempt <= maxRetries
        /\ (th[t].pc = "MR_Sleep" \/ (th[t].pc = "MR_InFlight" /\ th[t].attempt > 1)) =>
              /\ RetryableOutcome(th[t].reply)
              /\ th[t].pc = "MR_Sleep" => th[t].attempt < maxRetries

\* C7 happens: the third attempt is in flight
C7_Witness ==
    \E t \in Threads :
        /\ th[t].pc = "MR_InFlight"
        /\ th[t].attempt = maxRetries
        /\ RetryableOutcome(th[t].reply)

\* C8: the sleep before attempt k+1 lasts k seconds and is over when that
\* attempt is made; a call answered by a valid envelope on attempt 3 has
\* slept 1 s and then 2 s and returns that envelope's data.
C8_LinearBackoff ==
    \A t \in Threads :
        /\ th[t].pc = "MR_InFlight" =>
              /\ Len(th[t].slept) = th[t].attempt - 1
              /\ th[t].sleep = 0
        /\ th[t].pc = "MR_Sleep" =>
              /\ Len(th[t].slept) = th[t].attempt
              /\ th[t].sleep <= th[t].attempt
        /\ InMakeRequest(t) => \A k \in 1..Len(th[t].slept) : th[t].slept[k] = k
        /\ (AfterMakeRequest(t) /\ th[t].attempt = 3 /\ ValidEnvelope(th[t].reply)) =>
              /\ th[t].slept = <<1, 2>>
              /\ th[t].rv = Ok(th[t].reply.body.data)

\* C8 happens: a valid envelope answers the third attempt
C8_Witness ==
    \E t \in Threads :
        /\ AfterMakeRequest(t)
        /\ th[t].attempt = 3
        /\ ValidEnvelope(th[t].reply)
        /\ th[t].slept = <<1, 2>>
        /\ th[t].rv.err = NoErr

\* C9 (as stated): when the third attempt also ends in a retryable transport
\* error, makeRequest returns the exhaustion message wrapping that error.
C9_ExhaustionMessage ==
    \A t \in Threads :
        (AfterMakeRequest(t) /\ th[t].attempt = maxRetries
            /\ RetryableOutcome(th[t].reply))
            => /\ th[t].rv.err # NoErr
               /\ Head(th[t].rv.err) = ErrRetriesExhausted

\* C10 (as stated): every non-retryable outcome ends makeRequest with an
\* error after exactly one HTTP round trip and no sleep.
C10_OneRoundTripNoSleep ==
    \A t \in Threads :
        (InMakeRequest(t) /\ NonRetryableOutcome(th[t].reply))
            => /\ AfterMakeRequest(t)
               /\ th[t].rv.err # NoErr
               /\ th[t].attempt = 1
               /\ th[t].slept = <<>>

\* C10 (amended): a non-retryable outcome ends makeRequest with an error at
\* once: no attempt and no sleep follows it, and an envelope error carries
\* the code and the msg.  Answering the first attempt, it ends the call after
\* one round trip and no sleep; answering attempt k, after k round trips and
\* the k-1 sleeps of the earlier retryable failures.
C10_NonRetryableEndsCall ==
    \A t \in Threads :
        (InMakeRequest(t) /\ NonRetryableOutcome(th[t].reply))
            => /\ AfterMakeRequest(t)
               /\ th[t].rv.err # NoErr
               /\ th[t].sleep = 0
               /\ Len(th[t].slept) = th[t].attempt - 1
               /\ th[t].attempt = 1 => th[t].slept = <<>>
               /\ (th[t].reply.transportErr = NoErr /\ th[t].reply.body.json) =>
                     /\ th[t].reply.body.code \in Range(th[t].rv.err)
                     /\ Range(th[t].reply.body.msg) \subseteq Range(th[t].rv.err)

\* C10 happens: an API error answers the second attempt, after one sleep
C10_Witness ==
    \E t \in Threads :
        /\ AfterMakeRequest(t)
        /\ NonRetryableOutcome(th[t].reply)
        /\ th[t].reply.body.code = "51000"
        /\ th[t].attempt = 2
        /\ th[t].slept = <<1>>
        /\ th[t].rv.err # NoErr

\* the set-leverage POST of thread t's SetLeverage is in flight
LeveragePostInFlight(t) ==
    /\ th[t].pc = "MR_InFlight"
    /\ th[t].req.path = PathSetLeverage

\* some position of the symbol in the positions read reports the leverage
AnyRecordMatches(positions, symbol, leverage) ==
    \E i \in 1..Len(positions) :
        /\ positions[i].symbol = symbol
        /\ positions[i].leverage = leverage

\* C14 (as stated): SetLeverage issues no set-leverage POST when any position
\* of the symbol in the positions it read reports the target leverage, also
\* when the symbol has several records and only a later one matches.
C14_NoPostWhenAnyRecordMatches ==
    \A t \in Threads :
        (LeveragePostInFlight(t) /\ th[t].rv.err = NoErr)
            => ~AnyRecordMatches(th[t].rv.val, th[t].symbol, th[t].leverage)

\* the set-leverage POST was the last request of thread t's operation
LeveragePostWasLast(t) ==
    /\ th[t].log # <<>>
    /\ Last(th[t].log).path = PathSetLeverage

\* the exchange rejected with a message holding "already" or "same"
RejectedAsAlreadySet(r) ==
    /\ ~ValidEnvelope(r)
    /\ r.transportErr = NoErr
    /\ ~r.readErr
    /\ r.body.json
    /\ {"already", "same"} \cap Range(r.body.msg) # {}

\* C15: a set-leverage POST rejected with a message holding "already" or
\* "same" makes SetLeverage return success; every other failure of the POST
\* makes it return an error.
C15_AlreadyOrSameIsSuccess ==
    \A t \in Threads :
        (Returned(t, "SetLeverage") /\ LeveragePostWasLast(t)) =>
            /\ ValidEnvelope(th[t].reply) => th[t].rv.err = NoErr
            /\ RejectedAsAlreadySet(th[t].reply) => th[t].rv.err = NoErr
            /\ (~ValidEnvelope(th[t].reply) /\ ~RejectedAsAlreadySet(th[t].reply)) =>
                  /\ th[t].rv.err # NoErr
                  /\ Head(th[t].rv.err) = ErrSetLeverage

\* C15 happens: a rejection saying "same" is returned as success, and a
\* rejection saying neither has been returned as an error
C15_Witness ==
    \E t \in Threads :
        /\ Returned(t, "SetLeverage")
        /\ LeveragePostWasLast(t)
        /\ RejectedAsAlreadySet(th[t].reply)
        /\ "same" \in Range(th[t].reply.body.msg)
        /\ th[t].rv.err = NoErr

\* the endpoints thread t's operation has requested, and the requests by endpoint
LogPaths(t) == {th[t].log[i].path : i \in 1..Len(th[t].log)}
Requests(t, path) == {i \in 1..Len(th[t].log) : th[t].log[i].path = path}

\* the step of an open path an endpoint belongs to: cleanup, leverage,
\* quantity, order
Stage(path) ==
    IF path \in {PathCancelAllAfter, PathOrdersPending, PathCancelOrder,
                 PathAlgoPending, PathCancelAlgo} THEN 1
    ELSE IF path \in {PathPositions, PathSetLeverage} THEN 2
    ELSE IF path = PathInstruments THEN 3
    ELSE 4

\* C11: in OpenLong/OpenShort the requests go out in the order cleanup
\* (cancel-all-after first, then the other cancellations), set-leverage,
\* trade/order; the order POST is issued only when CancelAllOrders and
\* SetLeverage have returned.
C11_CleanupLeverageOrder ==
    \A t \in Threads :
        IsOpen(th[t].op) =>
            /\ th[t].log # <<>> => th[t].log[1].path = PathCancelAllAfter
            /\ \A i, j \in 1..Len(th[t].log) :
                  i < j => Stage(th[t].log[i].path) <= Stage(th[t].log[j].path)
            /\ PathOrder \in LogPaths(t) =>
                  /\ PathPositions \in LogPaths(t)
                  /\ th[t].pc \in {"MR_InFlight", "TR_AfterOrder", "done"}
                  /\ th[t].pc = "MR_InFlight" => th[t].stack = <<"TR_AfterOrder", "done">>

\* C11 happens: an order POST in flight after cancellations of a normal order
\* and of a conditional order and after the set-leverage POST
C11_Witness ==
    \E t \in Threads :
        /\ IsOpen(th[t].op)
        /\ th[t].pc = "MR_InFlight"
        /\ th[t].req.path = PathOrder
        /\ {PathCancelOrder, PathCancelAlgo, PathSetLeverage} \subseteq LogPaths(t)

\* C12: in OpenLong/OpenShort the result of CancelAllOrders, failure
\* included, is followed by SetLeverage; an error of SetLeverage is returned
\* at once, with no trade/order POST.
C12_CleanupSoftLeverageFatal ==
    [][\A t \in Threads :
          (IsOpen(th[t].op) /\ th'[t] # th[t]) =>
              /\ th[t].pc = "OP_AfterCancel" =>
                    /\ th'[t].pc = "GP_RLock"
                    /\ th'[t].stack = <<"SL_Scan", "OP_AfterLeverage", "done">>
              /\ (th[t].pc = "OP_AfterLeverage" /\ th[t].rv.err # NoErr) =>
                    /\ th'[t].pc = "done"
                    /\ th'[t].rv = th[t].rv
                    /\ th'[t].log = th[t].log
                    /\ PathOrder \notin LogPaths(t)]_vars

\* C12 happens: CancelAllOrders has failed (the listing of the pending
\* orders was refused) and the order is placed all the same
C12_Witness ==
    \E t \in Threads :
        /\ Returned(t, "OpenLong")
        /\ th[t].rv.err = NoErr
        /\ \E i \in Requests(t, PathOrdersPending) : th[t].log[i].outcome = "failed"
        /\ PathOrder \in LogPaths(t)

\* C13 (as stated): CancelAllOrders returns success whatever sub-call fails,
\* and every execution invokes both the stop-loss and the take-profit
\* cancellation (each starts by listing the conditional orders).
C13_AlwaysSuccessBothAlgoCancels ==
    \A t \in Threads :
        Returned(t, "CancelAllOrders") =>
            /\ th[t].rv.err = NoErr
            /\ Cardinality(Requests(t, PathAlgoPending)) = 2

\* the outcome of the set-leverage POST of thread t's operation
LeveragePost(t) ==
    IF Requests(t, PathSetLeverage) = {} THEN "none"
    ELSE th[t].log[CHOOSE i \in Requests(t, PathSetLeverage) : TRUE].outcome

\* C16: an accepted set-leverage POST is followed by 3 seconds of sleep
\* before SetLeverage returns, so the order POST of an open path goes out
\* after the cooldown; without an accepted POST there is no cooldown.
C16_CooldownAfterAcceptedPost ==
    \A t \in Threads :
        /\ (LeveragePost(t) = "ok" /\ th[t].pc \notin {"SL_AfterPost", "SL_Cooldown"})
              => th[t].cooled = CooldownSeconds
        /\ (LeveragePost(t) = "ok" /\ PathOrder \in LogPaths(t))
              => th[t].cooled = CooldownSeconds
        /\ LeveragePost(t) # "ok" => th[t].cooled = 0
        /\ th[t].pc = "SL_Cooldown" => LeveragePost(t) = "ok"

\* C16 happens: the order POST is in flight after an accepted set-leverage
\* POST and three seconds of cooldown
C16_Witness ==
    \E t \in Threads :
        /\ IsOpen(th[t].op)
        /\ th[t].pc = "MR_InFlight"
        /\ th[t].req.path = PathOrder
        /\ LeveragePost(t) = "ok"
        /\ th[t].cooled = CooldownSeconds

\* position i is the first of the positions with the symbol and the side
FirstHeld(positions, i, symbol, side) ==
    /\ positions[i].symbol = symbol
    /\ positions[i].side = side
    /\ \A j \in 1..(i - 1) : ~(positions[j].symbol = symbol /\ positions[j].side = side)

\* the side CloseLong (CloseShort) closes
ClosedSide(op) == IF op = "CloseLong" THEN "long" ELSE "short"

\* C17: CloseLong/CloseShort called with quantity 0 read the positions
\* before anything else and close the positionAmt of the first position of
\* the symbol on their side; when GetPositions fails or there is no such
\* position they return an error and send no order.
C17_CloseAllReadsPositionsFirst ==
    \A t \in Threads :
        (IsClose(th[t].op) /\ th[t].given = 0) =>
            /\ th[t].log # <<>> => th[t].log[1].path = PathPositions
            /\ Len(th[t].log) > 1 =>
                  /\ th[t].log[1].outcome = "ok"
                  /\ \E i \in 1..Len(cachedPositions) :
                        /\ FirstHeld(cachedPositions, i, th[t].symbol, ClosedSide(th[t].op))
                        /\ th[t].quantity = cachedPositions[i].positionAmt * One
            /\ (th[t].pc = "done" /\ Len(th[t].log) = 1) =>
                  /\ th[t].rv.err # NoErr
                  /\ \/ th[t].log[1].outcome = "failed"
                     \/ ~\E i \in 1..Len(cachedPositions) :
                           FirstHeld(cachedPositions, i, th[t].symbol, ClosedSide(th[t].op))

\* C17 happens: CloseShort(ETHUSDT, 0) with a short of 4 held sends sz "4"
C17_Witness ==
    \E t \in Threads :
        /\ th[t].op = "CloseShort"
        /\ th[t].given = 0
        /\ th[t].symbol = ETHUSDT
        /\ th[t].pc = "MR_InFlight"
        /\ th[t].req.path = PathOrder
        /\ th[t].req.body[1].sz = <<4, 0>>

FetchedInstrument(t) == th[t].reply.body.data.items[1]

\* C19 (as stated): with lotSize > 0 and minSize >= lotSize, fractional
\* sizes and a minSize that is no multiple of lotSize included, and q > 0,
\* the quantity q' FormatQuantity returns after a successful fetch has
\* q' >= minSize and q' mod lotSize = 0, and q' = minSize when q < minSize.
C19_QuantityMeetsLotAndMin ==
    \A t \in Threads :
        (Returned(t, "FormatQuantity") /\ ValidEnvelope(th[t].reply)) =>
            LET lotSize == Fixed(FetchedInstrument(t).lotSz)
                minSize == Fixed(FetchedInstrument(t).minSz)
                q == th[t].given
            IN  (lotSize > 0 /\ minSize >= lotSize /\ q > 0) =>
                    /\ th[t].rv.err = NoErr
                    /\ Fixed(th[t].rv.val) >= minSize
                    /\ Fixed(th[t].rv.val) % lotSize = 0
                    /\ q < minSize => Fixed(th[t].rv.val) = minSize

C24_SymbolRoundTrip ==
    \A t \in Threads :
        Returned(t, "convertSymbol") =>
            /\ (~Contains(th[t].symbol, "-")
                  /\ (HasSuffix(th[t].symbol, USDT) \/ HasSuffix(th[t].symbol, USD)))
                  => th[t].rv.val = th[t].symbol
            /\ th[t].symbol = BTCUSDT =>
                  /\ th[t].result = <<"B", "T", "C", "-", "U", "S", "D", "T",
                                      "-", "S", "W", "A", "P">>
                  /\ th[t].rv.val = BTCUSDT

\* C24 happens: a symbol ending in USD, not in USDT, has made the round trip
C24_Witness ==
    \E t \in Threads :
        /\ Returned(t, "convertSymbol")
        /\ th[t].symbol = <<"B", "T", "U", "S", "D">>
        /\ th[t].result = <<"B", "T", "-", "U", "S", "D", "-", "S", "W", "A", "P">>
        /\ th[t].rv.val = th[t].symbol

\* the raw records that GetPositions keeps: those whose pos parses to a
\* number other than zero
KeptRecords(items) == SelectSeq(items, LAMBDA p : p.pos # <<>> /\ p.pos[1] # 0)

\* the position records the exchange sent to the GetPositions call of t
RawRecords(t) == th[t].reply.body.data.items

\* C25: every position GetPositions returns has positionAmt > 0, side long
\* or short and positionSide = side; records whose pos is zero or does not
\* parse are dropped, pos < 0 gives side short and positionAmt |pos|, pos > 0
\* gives side long and positionAmt pos, and the order of the exchange is kept.
C25_PositionsNormalized ==
    \A t \in Threads :
        (Returned(t, "GetPositions") /\ th[t].rv.err = NoErr /\ th[t].fetches > 0) =>
            LET out == th[t].rv.val
                kept == KeptRecords(RawRecords(t))
            IN  /\ Len(out) = Len(kept)
                /\ \A i \in 1..Len(out) :
                      /\ out[i].positionAmt > 0
                      /\ out[i].side \in {"long", "short"}
                      /\ out[i].positionSide = out[i].side
                      /\ out[i].symbol = reverseSymbol(kept[i].instId)
                      /\ out[i].leverage = kept[i].lever[1]
                      /\ kept[i].pos[1] < 0 =>
                            out[i].side = "short" /\ out[i].positionAmt = 0 - kept[i].pos[1]
                      /\ kept[i].pos[1] > 0 =>
                            out[i].side = "long" /\ out[i].positionAmt = kept[i].pos[1]

\* a short record is returned after a record with an empty pos was dropped
C25_Witness ==
    \E t \in Threads :
        /\ Returned(t, "GetPositions")
        /\ th[t].rv.err = NoErr
        /\ Len(RawRecords(t)) = 2
        /\ RawRecords(t)[1].pos = <<>>
        /\ RawRecords(t)[2].pos = Num(0 - 2)
        /\ Len(th[t].rv.val) = 1
        /\ th[t].rv.val[1].side = "short"
        /\ th[t].rv.val[1].positionAmt = 2

\* C26: every balance GetBalance returns has totalWalletBalance = total
\* equity - unrealized profit and no negative value other than
\* totalUnrealizedProfit, whatever the exchange sent (an unrealized profit
\* above the total equity, empty strings).
C26_BalanceNonNegative ==
    \A t \in Threads :
        (Returned(t, "GetBalance") /\ th[t].rv.err = NoErr) =>
            LET b == th[t].rv.val[1]
            IN  /\ b.totalWalletBalance = b.total_equity - b.totalUnrealizedProfit
                /\ \A f \in DOMAIN b \ {"totalUnrealizedProfit"} : b[f] >= 0

\* C27: the entries of symbolPrecision never expire and are kept under the
\* instrument ID: no entry is ever removed or changed, and a getPrecision
\* that starts when the instrument of its symbol has an entry (BTCUSDT and
\* BTC-USDT-SWAP have the same one) makes no HTTP request and returns that
\* entry, however much time has passed.
C27_PrecisionNeverExpires ==
    [][ /\ \A k \in DOMAIN symbolPrecision :
              k \in DOMAIN symbolPrecision' /\ symbolPrecision'[k] = symbolPrecision[k]
        /\ \A t \in Threads :
              LET k == convertSymbol(th[t].symbol)
              IN  (/\ th[t].op = "getPrecision"
                   /\ th'[t].op = "getPrecision"
                   /\ th[t].fetches = 0
                   /\ k \in DOMAIN symbolPrecision) =>
                      /\ th'[t].fetches = 0
                      /\ th'[t].pc = "done" => th'[t].rv = Ok(<<symbolPrecision[k]>>)
      ]_vars

\* more than the TTL of the other caches after the start, a getPrecision of
\* BTCUSDT has returned the entry of BTC-USDT-SWAP without any request
C27_Witness ==
    \E t \in Threads :
        /\ Returned(t, "getPrecision")
        /\ th[t].symbol = BTCUSDT
        /\ th[t].fetches = 0
        /\ elapsed > cacheDuration
        /\ BTCSWAP \in DOMAIN symbolPrecision
        /\ th[t].rv = Ok(<<symbolPrecision[BTCSWAP]>>)

\* the labels at which a cached read has found its entry
HitLabels == {"GB_HitRUnlock", "GB_HitReturn", "GP_HitRUnlock", "GP_HitReturn",
              "PR_HitRUnlock"}

\* C30: NewOKXTrader returns an error, and no client, exactly when one of
\* key, secret and passphrase is empty; the client it creates has an empty
\* balance cache, an empty positions cache and an empty precision map, so
\* that the first GetBalance, the first GetPositions and a getPrecision made
\* first all miss.
C30_ConstructionAndEmptyCaches ==
    \A t \in Threads :
        /\ Returned(t, "NewOKXTrader") =>
              /\ th[t].rv.err # NoErr <=> \E i \in 1..3 : th[t].args[i] = ""
              /\ th[t].rv.err # NoErr <=> t \notin cfg.callers
              /\ th[t].rv.err = NoErr =>
                    /\ cfg.callers = {t}
                    /\ cachedBalance = <<>>
                    /\ cachedPositions = <<>>
                    /\ DOMAIN symbolPrecision = {}
        /\ th[t].op # "none" /\ th[t].op # "NewOKXTrader" => t \in cfg.callers
        /\ \/ th[t].op = "GetBalance" /\ calls.balance = 1
           \/ th[t].op = "GetPositions" /\ calls.positions = 1
           \/ th[t].op = "getPrecision" /\ started = 1
           => th[t].pc \notin HitLabels

\* the first GetBalance on a client just made has sent its request
C30_Witness ==
    \E t \in Threads :
        /\ cfg.callers = {t}
        /\ th[t].op = "GetBalance"
        /\ calls.balance = 1
        /\ th[t].pc = "MR_InFlight"

\* C29: an open or close operation returns success only if the data of the
\* trade/order response is a single element whose sCode is "0", and then
\* returns that element's ordId, the caller's symbol and the status FILLED;
\* an empty array, a first sCode other than "0" or more than one element
\* makes it return an error.
C29_SuccessNeedsSingleAcceptedOrder ==
    \A t \in Threads :
        (/\ th[t].pc = "done"
         /\ th[t].op \in {"OpenLong", "OpenShort", "CloseLong", "CloseShort"}
         /\ th[t].rv.err = NoErr) =>
            LET items == th[t].reply.body.data.items
            IN  /\ Last(th[t].log) = [path |-> PathOrder, outcome |-> "ok"]
                /\ Len(items) = 1
                /\ items[1].sCode = "0"
                /\ th[t].rv.val = [orderId |-> items[1].ordId,
                                   symbol |-> th[t].symbol,
                                   status |-> "FILLED"]

OrderOps == {"OpenLong", "OpenShort", "CloseLong", "CloseShort"}

\* C21: every POST to /api/v5/trade/order of an open or close operation
\* carries an sz above zero, and a quantity below zero on input makes the
\* call fail before any order is sent.
C21_OrdersCarryPositiveSize ==
    \A t \in Threads :
        th[t].op \in OrderOps =>
            /\ th[t].req.path = PathOrder => th[t].req.body[1].sz[1] > 0
            /\ th[t].given < 0 => PathOrder \notin LogPaths(t)

\* the fetch of the instrument made by the operation of t has failed
SpecFetchFailed(t) ==
    \E i \in 1..Len(th[t].log) :
        th[t].log[i] = [path |-> PathInstruments, outcome |-> "failed"]

C23_FetchFailureIsFatal ==
    \A t \in Threads :
        (/\ th[t].op \in OrderOps \cup {"SetStopLoss", "SetTakeProfit"}
         /\ SpecFetchFailed(t)) =>
            /\ PathOrder \notin LogPaths(t)
            /\ PathOrderAlgo \notin LogPaths(t)
            /\ th[t].pc = "done" => th[t].rv.err # NoErr

\* the trading operations: they place, cancel or configure
TradingOps == OrderOps \cup {"SetLeverage", "SetStopLoss", "SetTakeProfit", "CancelAllOrders"}

\* thread t is about to store what it fetched after finding the cache of its
\* read empty or expired
StoresAfterMiss(t, label) ==
    /\ th[t].pc = label
    /\ ~(Seen(t).present /\ Seen(t).age < cacheDuration)

\* C28: the cached balance and the cached positions, and the times they
\* were fetched at, change only when a read that found its cache empty or
\* expired stores what it fetched: no order, cancellation, leverage POST or
\* conditional order clears or changes them, and a GetBalance or
\* GetPositions within the TTL returns the payload cached before.
C28_CachesChangeByExpiryOnly ==
    [][ /\ (cachedBalance' # cachedBalance \/ balanceCacheAge' < balanceCacheAge) =>
              \E t \in Threads : StoresAfterMiss(t, "GB_Lock") /\ th[t].op = "GetBalance"
        /\ (cachedPositions' # cachedPositions \/ positionsCacheAge' < positionsCacheAge) =>
              \E t \in Threads : StoresAfterMiss(t, "GP_Lock")
        /\ \A t \in Threads :
              /\ (th[t].pc = "GB_HitReturn" /\ th'[t].pc # "GB_HitReturn") =>
                    th'[t].rv = Ok(lastWrite.balance[1].payload)
              /\ (th[t].pc = "GP_HitReturn" /\ th'[t].pc # "GP_HitReturn") =>
                    th'[t].rv = Ok(lastWrite.positions[1].payload)
      ]_vars

\* an order has been placed with success and the positions read before it
\* are still in the cache, within the TTL
C28_Witness ==
    \E t \in Threads :
        /\ th[t].pc = "done"
        /\ th[t].op \in OrderOps
        /\ th[t].rv.err = NoErr
        /\ fetched.positions = 1
        /\ cachedPositions # <<>>
        /\ cachedPositions = lastWrite.positions[1].payload
        /\ positionsCacheAge < cacheDuration
        /\ positionsCacheAge = lastWrite.positions[1].age

\* the symbol s without its last n characters
DropLast(s, n) == SubSeq(s, 1, Len(s) - n)

\* C34: convertSymbol is defined for every symbol: one that holds a dash
\* comes back unchanged, otherwise a trailing USDT becomes -USDT-SWAP,
\* otherwise a trailing USD becomes -USD-SWAP, otherwise -USDT-SWAP is
\* appended; and converting the result again changes nothing.
C34_ConvertCasesAndIdempotent ==
    \A t \in Threads :
        Returned(t, "convertTwice") =>
            LET sym == th[t].symbol
                dashed == \E i \in 1..Len(sym) : sym[i] = "-"
                expected ==
                    IF dashed THEN sym
                    ELSE IF HasSuffix(sym, USDT)
                         THEN DropLast(sym, 4) \o <<"-","U","S","D","T","-","S","W","A","P">>
                    ELSE IF HasSuffix(sym, USD)
                         THEN DropLast(sym, 3) \o <<"-","U","S","D","-","S","W","A","P">>
                    ELSE sym \o <<"-","U","S","D","T","-","S","W","A","P">>
            IN  /\ th[t].result = expected
                /\ th[t].rv = Ok(th[t].result)

\* BUSD has become B-USD-SWAP, and B-USD-SWAP has stayed B-USD-SWAP
C34_Witness ==
    \E t \in Threads :
        /\ Returned(t, "convertTwice")
        /\ th[t].symbol = <<"B","U","S","D">>
        /\ th[t].result = <<"B","-","U","S","D","-","S","W","A","P">>
        /\ th[t].rv.val = th[t].result

\* C33: in every request makeRequest sends, the path given to the signer is
\* the path and query of the request line, the body given to the signer is
\* the body sent (the empty string when there is none), and the timestamp
\* signed is the one of the OK-ACCESS-TIMESTAMP header.
C33_SignedWhatIsSent ==
    \A t \in Threads :
        \A i \in 1..Len(th[t].sent) :
            th[t].sent[i].written =>
                /\ th[t].sent[i].sign.requestPath = th[t].sent[i].line
                /\ th[t].sent[i].line = <<th[t].req.path, th[t].req.query>>
                /\ th[t].sent[i].sign.body = th[t].sent[i].body
                /\ th[t].req.body = <<>> => th[t].sent[i].sign.body = <<>>
                /\ th[t].sent[i].sign.method = th[t].sent[i].method
                /\ th[t].sent[i].sign.timestamp = th[t].sent[i].stamp

\* a second attempt of the order POST is in flight with its body, and the
\* fetch of the instrument before it was signed with its query
C33_Witness ==
    \E t \in Threads :
        /\ th[t].pc = "MR_InFlight"
        /\ th[t].req.path = PathOrder
        /\ th[t].attempt = 2
        /\ Len(th[t].sent) = 2
        /\ th[t].sent[2].written
        /\ th[t].sent[2].body # <<>>
        /\ th[t].sent[2].sign.body = th[t].sent[2].body

\* C39: all attempts of one makeRequest call, those after a back-off
\* included, carry the OK-ACCESS-TIMESTAMP and OK-ACCESS-SIGN computed
\* before the first attempt; the timestamp is not taken again.
C39_OneTimestampPerCall ==
    \A t \in Threads :
        \A i \in 1..Len(th[t].sent) :
            /\ Len(th[t].sent) = th[t].attempt
            /\ th[t].sent[i].stamp = th[t].signed[1].timestamp
            /\ th[t].sent[i].sign = th[t].signed[1]
            /\ th[t].sent[i].stamp = th[t].sent[1].stamp

\* a third attempt is in flight three seconds after the first, under the
\* timestamp of the first
C39_Witness ==
    \E t \in Threads :
        /\ th[t].pc = "MR_InFlight"
        /\ th[t].attempt = 3
        /\ Len(th[t].sent) = 3
        /\ elapsed = th[t].sent[1].stamp + 3
        /\ th[t].sent[3].stamp = th[t].sent[1].stamp

\* C40: the string formatPrice returns denotes exactly the floor-quantized
\* price (the largest multiple of the tick not above the price, or the price
\* cut to the decimals of the price precision when there is no tick):
\* trimming the trailing zeros and the trailing point never changes the
\* value, with tickSize = 0 and price precision 0 too (100 is not "1").
C40_TrimKeepsThePrice ==
    \A t \in Threads :
        (Returned(t, "formatPrice") /\ th[t].rv.err = NoErr) =>
            LET tickSize == Fixed(FetchedInstrument(t).tickSz)
                p == th[t].price
                quantized == IF tickSize > 0 THEN p - (p % tickSize) ELSE p - (p % One)
            IN  /\ th[t].rv.val # <<>>
                /\ Fixed(th[t].rv.val) = quantized

\* the side of the order that closes a position of the given side
ClosingSide(positionSide) ==
    IF positionSide \in {"long", "LONG"} THEN "sell" ELSE "buy"

RECURSIVE PendingOfKind(_, _)
PendingOfKind(algo, list) ==
    IF list = <<>> THEN <<>>
    ELSE LET px == IF algo = "sl" THEN Head(list).slTriggerPx ELSE Head(list).tpTriggerPx
         IN  (IF px \notin {"", "0"} THEN <<Head(list).algoId>> ELSE <<>>)
                \o PendingOfKind(algo, Tail(list))

StopCancelOps == {"CancelStopLossOrders", "CancelTakeProfitOrders"}

CacheOps == {"GetBalance", "GetPositions"}

\* the fetch of a GetBalance or GetPositions call has failed: makeRequest
\* returned an error, the data does not decode, or (balance) the account
\* list or the detail list of the account is empty
FetchFails(t) ==
    LET r == th[t].rv
    IN  \/ /\ th[t].pc \in {"GB_Parse", "GP_Parse"}
           /\ (r.err # NoErr \/ ~r.val.valid)
        \/ /\ th[t].pc = "GB_Parse"
           /\ r.err = NoErr
           /\ r.val.valid
           /\ (Len(r.val.items) = 0 \/ Len(r.val.items[1].details) = 0)

\* C35: a GetBalance or GetPositions call whose fetch fails returns an
\* error, not a payload, and on its way from the miss to the return it
\* leaves the cached payloads as they were and refreshes no cache time;
\* only the step that takes the write lock changes a cache.
C35_FailedFetchLeavesCache ==
    [][\A t \in Threads :
          (th[t].op \in CacheOps /\ th'[t] # th[t]) =>
              /\ FetchFails(t) =>
                    /\ th'[t].pc = "done"
                    /\ th'[t].rv.err # NoErr
                    /\ th'[t].rv.val = <<>>
              /\ th[t].pc \notin {"GB_Lock", "GP_Lock"} =>
                    /\ cachedBalance' = cachedBalance
                    /\ balanceCacheAge' >= balanceCacheAge
                    /\ cachedPositions' = cachedPositions
                    /\ positionsCacheAge' >= positionsCacheAge]_vars

\* C35 happens: GetBalance has returned the error of an account without
\* details while the cache holds a payload that has expired
C35_Witness ==
    \E t \in Threads :
        /\ Returned(t, "GetBalance")
        /\ th[t].rv.err = <<ErrNoBalance>>
        /\ th[t].log[1].outcome = "ok"
        /\ th[t].reply.body.data = NoDetailData
        /\ cachedBalance # <<>>
        /\ balanceCacheAge >= cacheDuration

\* the payload and the cache time of cache c are those of one fetch
OnePair(c, payload, age, mutex) ==
    /\ (mutex.readers # {} \/ mutex.writer = NoThread) =>
          /\ Written(c).ticket = Written(c).stamped
          /\ payload = Written(c).payload
          /\ age = Written(c).age
    /\ mutex.readers # {} => mutex.writer = NoThread

\* C36: under every interleaving of concurrent GetBalance (GetPositions)
\* calls, whenever a thread holds the read lock, and whenever nobody holds
\* the write lock, the cached payload and the cache time are the pair that
\* one single fetch installed; the cache time never goes back.
C36_PayloadAndTimeOfOneFetch ==
    [][/\ OnePair("balance", cachedBalance, balanceCacheAge, balanceCacheMutex)'
       /\ OnePair("positions", cachedPositions, positionsCacheAge, positionsCacheMutex)'
       /\ \A c \in {"balance", "positions"} : Written(c)'.at >= Written(c).at]_vars

\* C36 happens: the second of two concurrent fetches has stored its payload
\* next to the cache time of the first, holding the write lock, while the
\* other thread asks for the read lock
C36_Witness ==
    \E t1, t2 \in Threads :
        /\ th[t1].pc = "GB_Stamp"
        /\ Written("balance").ticket = th[t1].ticket
        /\ Written("balance").stamped \notin {0, th[t1].ticket}
        /\ balanceCacheMutex.writer = t1
        /\ th[t2].pc = "GB_RLock"

\* C37: under concurrent misses the cached payload is never replaced by the
\* response to a request that was issued earlier than the request whose
\* response is cached.
C37_NoOlderSnapshotOverNewer ==
    [][\A c \in {"balance", "positions"} : Written(c)'.ticket >= Written(c).ticket]_vars

\* thread t has returned from a call of op that fetched and wrote the cache
\* c, and no thread has taken the write lock of c since
WroteLast(t, op, c) ==
    /\ Returned(t, op)
    /\ th[t].rv.err = NoErr
    /\ th[t].fetches = 1
    /\ lastLock[c] = t

\* C37 as amended: under concurrent misses the last writer wins: once the
\* write lock is free the cache holds the payload of the fetch of the last
\* thread that took the write lock, whether its request was issued before
\* or after the request whose response was cached until then.
C37_LastWriterWins ==
    \A t \in Threads :
        /\ (WroteLast(t, "GetBalance", "balance") /\ balanceCacheMutex.writer = NoThread) =>
              /\ cachedBalance = th[t].result
              /\ Written("balance").ticket = th[t].ticket
        /\ (WroteLast(t, "GetPositions", "positions")
              /\ positionsCacheMutex.writer = NoThread) =>
              /\ cachedPositions = th[t].result
              /\ Written("positions").ticket = th[t].ticket

\* C37 as amended happens: of two concurrent GetBalance calls the one whose
\* request was issued first wrote last, and the cache holds its payload, not
\* the different payload of the later request
C37_Witness ==
    \E t1, t2 \in Threads :
        /\ WroteLast(t1, "GetBalance", "balance")
        /\ Returned(t2, "GetBalance")
        /\ th[t2].rv.err = NoErr
        /\ th[t2].fetches = 1
        /\ th[t1].ticket < th[t2].ticket
        /\ th[t1].result # th[t2].result
        /\ cachedBalance = th[t1].result
        /\ balanceCacheAge = 0

\* the cache locks thread t holds
HeldBy(t) ==
    {m \in {"balance", "positions", "precision"} :
        \/ m = "balance" /\ Holds(balanceCacheMutex, t)
        \/ m = "positions" /\ Holds(positionsCacheMutex, t)
        \/ m = "precision" /\ Holds(precisionMutex, t)}

\* C38: an operation that has returned holds no cache lock, no thread ever
\* holds two cache locks, and, every HTTP call returning, every operation
\* that was called returns: no thread waits for a cache lock for ever.
C38_LocksReleasedAndCallsReturn ==
    /\ [](\A t \in Threads :
             /\ th[t].pc \in {"idle", "done"} => HeldBy(t) = {}
             /\ Cardinality(HeldBy(t)) <= 1)
    /\ \A t \in Threads : (th[t].pc # "idle") ~> (th[t].pc = "done")

\* C38 happens: a thread waits for the write lock of the balance cache that
\* another thread holds
C38_Witness ==
    \E t1, t2 \in Threads :
        /\ th[t1].pc = "GB_Lock"
        /\ balanceCacheMutex.writer = t2
        /\ th[t2].pc = "GB_Unlock"

====
